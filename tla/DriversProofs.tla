---------------------------- MODULE DriversProofs ---------------------------
(***************************************************************************)
(* Proofs about the control path of the ADIN2111.                          *)
(*                                                                         *)
(* Register accesses of tasks that take turns against the interrupt, for   *)
(* any number of polls, operations and events.  RegsInv of AdinRegs is     *)
(* inductive: whoever turned the interrupt off has it in a backup or is    *)
(* the transfer that turns it on again, and who has begun with the MDIO    *)
(* registers has the bus until the end.                                    *)
(*                                                                         *)
(* Bring-up and links, for any number of calls and of changes.  LinkInv is *)
(* inductive: a link of which L2 was told something else is latched, has   *)
(* been read in the transfer that runs, or is remembered and yet to be     *)
(* reported.                                                               *)
(***************************************************************************)
EXTENDS AdinRegs, SequenceTheorems, TLAPS

\* One task at a time uses the driver, and PHY_Read looks at the interrupt and
\* turns it off in one.
Alone == AdinRegsAssumption /\ ~Together /\ ~Preempt

\* The other tasks are not in the driver.
Solo(t) == \A u \in Task \ {t} : task[u] = Idle

-----------------------------------------------------------------------------
(* Records *)

LEMMA UsesAre ==
  ASSUME AdinRegsAssumption, NEW t \in Task
  PROVE  Uses(t) \subseteq Op
  <1>1. t \in {"l2", "timer", "app"}
    BY DEF AdinRegsAssumption
  <1> QED BY <1>1 DEF Uses, Op

LEMMA OpsAre ==
  Op = {[kind |-> "read", reg |-> "AN_STATUS"], [kind |-> "read", reg |-> "AN_STATUS_EXTRA"],
        [kind |-> "write", reg |-> "AN_CONTROL"], [kind |-> "write", reg |-> "CRSM_SFT_PD_CNTRL"],
        [kind |-> "read", reg |-> "CRSM_STAT"]}
  BY DEF Op, PHY_GetLinkStatus, PHY_GetAnStatus, PHY_Renegotiate, setSoftwarePowerdown

LEMMA OpIs ==
  ASSUME NEW o \in Op
  PROVE  /\ o.reg \in Reg
         /\ \/ /\ o.kind = "read" /\ Accesses(o) = <<"addr", "start", "poll", "data">>
               /\ Len(Accesses(o)) = 4 /\ DOMAIN Accesses(o) = 1..4
            \/ /\ o.kind = "write" /\ Accesses(o) = <<"addr", "start", "poll">>
               /\ Len(Accesses(o)) = 3 /\ DOMAIN Accesses(o) = 1..3
  <1>1. o.reg \in Reg
    BY DEF Reg
  <1>2. o.kind \in {"read", "write"}
    BY OpsAre
  <1>3. CASE o.kind = "read"
    BY <1>1, <1>3 DEF Accesses, MAC_PhyRead
  <1>4. CASE o.kind = "write"
    BY <1>1, <1>4 DEF Accesses, MAC_PhyWrite
  <1> QED BY <1>2, <1>3, <1>4

\* A task in an operation, by its fields.
LEMMA BusyFields ==
  ASSUME NEW b \in Busy
  PROVE  /\ b.pc \in {"off", "enter", "wait", "go"} /\ b.op \in Op /\ b.k \in 1..4
         /\ b.phyBackup \in BOOLEAN /\ b.backup \in BOOLEAN /\ b.polls \in 0..MaxPoll
         /\ b # Idle
  <1>1. b.pc \in {"off", "enter", "wait", "go"}
    BY DEF Busy
  <1>2. Idle.pc = "idle"
    BY DEF Idle
  <1>3. b # Idle
    BY <1>1, <1>2
  <1> QED BY <1>3 DEF Busy

\* What the invariant says, with the tasks' states named.
LEMMA InvParts ==
  ASSUME RegsInv
  PROVE  /\ irq \in BOOLEAN /\ pendingCtrl \in BOOLEAN /\ pin \in BOOLEAN /\ event \in BOOLEAN
         /\ mdio \in [addr : Reg, reg : Reg, done : BOOLEAN, data : Reg]
         /\ \A t \in Task : task[t] = Idle \/ task[t] \in Busy
         /\ \A t \in Task : \A b \in {Idle} \cup Busy :
              task' = [task EXCEPT ![t] = b] =>
                /\ task' \in [Task -> {Idle} \cup Busy] /\ task'[t] = b
                /\ Solo(t) => \A u \in Task \ {t} : task'[u] = Idle
  <1>1. task \in [Task -> {Idle} \cup Busy]
    BY DEF RegsInv
  <1>2. {irq, pendingCtrl, pin, event} \subseteq BOOLEAN
    BY DEF RegsInv
  <1>3. irq \in BOOLEAN /\ pendingCtrl \in BOOLEAN /\ pin \in BOOLEAN /\ event \in BOOLEAN
    BY <1>2, Zenon
  <1>4. mdio \in [addr : Reg, reg : Reg, done : BOOLEAN, data : Reg]
    BY DEF RegsInv
  <1> HIDE DEF RegsInv
  <1> QED BY <1>1, <1>3, <1>4 DEF Solo

Spi == {"ready", "data", "phyStart", "phyStep", "phyPoll"}

Typed ==
  /\ irq \in BOOLEAN /\ pendingCtrl \in BOOLEAN /\ pin \in BOOLEAN /\ event \in BOOLEAN
  /\ spi \in Spi
  /\ mdio \in [addr : Reg, reg : Reg, done : BOOLEAN, data : Reg]
  /\ task \in [Task -> {Idle} \cup Busy]
  /\ ops \in 0..MaxOp /\ events \in 0..MaxEvent
  /\ overlap = FALSE /\ wrong = FALSE /\ ChainRight

LEMMA TypedParts ==
  ASSUME RegsInv PROVE Typed
  <1>1. ChainRight
    BY DEF RegsInv
  <1> QED BY <1>1, InvParts DEF RegsInv, Typed, Spi

\* The invariant of the next state, from its parts: after a step of task t,
LEMMA InvFrom ==
  ASSUME NEW t \in Task, Typed', \A u \in Task \ {t} : task'[u] = Idle,
         task'[t] = Idle => ~pendingCtrl' /\ (spi' = "ready" => irq'),
         task'[t] # Idle => BackupRight(task[t])' /\ MdioRight(task[t])'
  PROVE  RegsInv'
  <1>1. {irq', pendingCtrl', pin', event'} \subseteq BOOLEAN
    BY Zenon DEF Typed
  <1>2. \A u, v \in Task : u = v \/ task'[u] = Idle \/ task'[v] = Idle
    OBVIOUS
  <1>3. (\A u \in Task : task'[u] = Idle) => ~pendingCtrl' /\ (spi' = "ready" => irq')
    OBVIOUS
  <1>4. ASSUME NEW u \in Task, task'[u] # Idle
        PROVE  BackupRight(task[u])' /\ MdioRight(task[u])'
    <2>1. u = t
      BY <1>4
    <2> QED BY <1>4, <2>1
  <1>5. spi' \in {"ready", "data", "phyStart", "phyStep", "phyPoll"}
    BY DEF Typed, Spi
  <1> QED BY <1>1, <1>2, <1>3, <1>4, <1>5 DEF RegsInv, Typed

\* and after one that leaves the tasks where they are.
LEMMA InvStays ==
  ASSUME RegsInv, Typed', task' = task,
         (\A t \in Task : task[t] = Idle) => ~pendingCtrl' /\ (spi' = "ready" => irq'),
         \A t \in Task : task[t] # Idle => BackupRight(task[t])' /\ MdioRight(task[t])'
  PROVE  RegsInv'
  <1>1. {irq', pendingCtrl', pin', event'} \subseteq BOOLEAN
    BY Zenon DEF Typed
  <1>2. \A u, v \in Task : u = v \/ task'[u] = Idle \/ task'[v] = Idle
    BY DEF RegsInv
  <1>3. spi' \in {"ready", "data", "phyStart", "phyStep", "phyPoll"}
    BY DEF Typed, Spi
  <1> QED BY <1>1, <1>2, <1>3 DEF RegsInv, Typed

-----------------------------------------------------------------------------
(* One lemma per action *)

LEMMA PhyBeginsRight ==
  ASSUME Alone, RegsInv, NEW t \in Task, NEW o \in Uses(t), PhyBegins(t, o)
  PROVE  RegsInv'
  <1> DEFINE b == [pc |-> "off", op |-> o, k |-> 1, phyBackup |-> irq,
                   backup |-> FALSE, polls |-> 0]
  <1>1. /\ task[t] = Idle /\ Solo(t) /\ ops < MaxOp /\ ops' = ops + 1
        /\ task' = [task EXCEPT ![t] = b]
        /\ UNCHANGED <<irq, pendingCtrl, spi, chip, event, hist>>
    BY DEF PhyBegins, Turn, Solo, Alone
  <1>2. irq \in BOOLEAN /\ o \in Op
    BY InvParts, UsesAre DEF Alone
  <1>3. b \in Busy
    BY <1>2 DEF Busy, Alone, AdinRegsAssumption
  <1>4. /\ b.pc = "off" /\ b.op = o /\ b.k = 1 /\ b.phyBackup = irq
    OBVIOUS
  <1> HIDE DEF b
  <1>5. task'[t] = b /\ task' \in [Task -> {Idle} \cup Busy] /\ b # Idle
        /\ \A u \in Task \ {t} : task'[u] = Idle
    BY <1>1, <1>2, <1>3, InvParts, BusyFields
  <1>6. ~pendingCtrl /\ (spi = "ready" => irq)
    BY <1>1 DEF RegsInv, Solo
  <1>7. BackupRight(task[t])'
    BY <1>1, <1>2, <1>4, <1>5, <1>6 DEF BackupRight
  <1>8. MdioRight(task[t])'
    BY <1>1, <1>2, <1>4, <1>5, OpIs DEF MdioRight
  <1>9. ops' \in 0..MaxOp
    BY <1>1 DEF RegsInv, Alone, AdinRegsAssumption
  <1>10. ChainRight'
    BY <1>1 DEF ChainRight, RegsInv, chip
  <1> QED BY <1>1, <1>5, <1>7, <1>8, <1>9, <1>10, TypedParts, InvFrom
          DEF Typed, chip, hist

\* A task that is at pc is in an operation.
LEMMA AtWork ==
  ASSUME RegsInv, NEW t \in Task, task[t].pc \in {"off", "enter", "wait", "go"}
  PROVE  task[t] \in Busy /\ BackupRight(task[t]) /\ MdioRight(task[t]) /\ Solo(t)
  <1>1. Idle.pc = "idle"
    BY DEF Idle
  <1>2. task[t] # Idle
    BY <1>1
  <1> QED BY <1>2, InvParts DEF RegsInv, Solo

LEMMA PhyOffRight ==
  ASSUME Alone, RegsInv, NEW t \in Task, PhyOff(t)
  PROVE  RegsInv'
  <1> DEFINE a == task[t]
             b == [a EXCEPT !.pc = "enter"]
  <1>1. /\ a.pc = "off" /\ irq' = FALSE
        /\ task' = [task EXCEPT ![t] = b]
        /\ UNCHANGED <<pendingCtrl, spi, chip, event, ops, hist>>
    BY DEF PhyOff
  <1>2. a \in Busy /\ BackupRight(a) /\ MdioRight(a) /\ Solo(t)
    BY <1>1, AtWork DEF Alone
  <1>3. b \in Busy
    BY <1>2 DEF Busy
  <1>4. /\ b.pc = "enter" /\ b.op = a.op /\ b.k = a.k /\ b.phyBackup = a.phyBackup
    BY <1>2 DEF Busy
  <1> HIDE DEF a, b
  <1>5. task'[t] = b /\ task' \in [Task -> {Idle} \cup Busy] /\ b # Idle
        /\ \A u \in Task \ {t} : task'[u] = Idle
    BY <1>1, <1>2, <1>3, InvParts, BusyFields
  <1>7. BackupRight(task[t])'
    BY <1>1, <1>2, <1>4, <1>5 DEF BackupRight
  <1>8. MdioRight(task[t])'
    BY <1>1, <1>2, <1>4, <1>5 DEF MdioRight, chip
  <1>10. ChainRight'
    BY <1>1 DEF ChainRight, RegsInv, chip
  <1> QED BY <1>1, <1>5, <1>7, <1>8, <1>10, TypedParts, InvFrom
          DEF Typed, chip, hist

LEMMA EnterRight ==
  ASSUME Alone, RegsInv, NEW t \in Task, Enter(t)
  PROVE  RegsInv'
  <1> DEFINE a == task[t]
             b == [a EXCEPT !.pc = "wait", !.backup = Backup]
  <1>1. /\ a.pc = "enter" /\ irq' = FALSE /\ pendingCtrl' = TRUE
        /\ task' = [task EXCEPT ![t] = b]
        /\ UNCHANGED <<spi, chip, event, ops, hist>>
    BY DEF Enter
  <1>2. a \in Busy /\ BackupRight(a) /\ MdioRight(a) /\ Solo(t)
    BY <1>1, AtWork DEF Alone
  <1>3. Backup \in BOOLEAN /\ (Backup <=> spi # "ready" \/ irq)
    BY InvParts DEF Backup, Alone
  <1>4. b \in Busy
    BY <1>2, <1>3 DEF Busy
  <1>5. /\ b.pc = "wait" /\ b.op = a.op /\ b.k = a.k /\ b.phyBackup = a.phyBackup
        /\ b.backup = Backup
    BY <1>2 DEF Busy
  <1> HIDE DEF a, b
  <1>6. task'[t] = b /\ task' \in [Task -> {Idle} \cup Busy] /\ b # Idle
        /\ \A u \in Task \ {t} : task'[u] = Idle
    BY <1>1, <1>2, <1>4, InvParts, BusyFields
  <1>7. BackupRight(task[t])'
    BY <1>1, <1>2, <1>3, <1>5, <1>6 DEF BackupRight
  <1>8. MdioRight(task[t])'
    BY <1>1, <1>2, <1>5, <1>6 DEF MdioRight, chip
  <1>10. ChainRight'
    BY <1>1 DEF ChainRight, RegsInv, chip
  <1> QED BY <1>1, <1>6, <1>7, <1>8, <1>10, TypedParts, InvFrom
          DEF Typed, chip, hist

LEMMA WaitRight ==
  ASSUME Alone, RegsInv, NEW t \in Task, Wait(t)
  PROVE  RegsInv'
  <1> DEFINE a == task[t]
             b == [a EXCEPT !.pc = "go"]
  <1>1. /\ a.pc = "wait" /\ spi = "ready"
        /\ task' = [task EXCEPT ![t] = b]
        /\ UNCHANGED <<irq, pendingCtrl, spi, chip, event, ops, hist>>
    BY DEF Wait, BusIsMine
  <1>2. a \in Busy /\ BackupRight(a) /\ MdioRight(a) /\ Solo(t)
    BY <1>1, AtWork DEF Alone
  <1>3. b \in Busy
    BY <1>2 DEF Busy
  <1>4. /\ b.pc = "go" /\ b.op = a.op /\ b.k = a.k /\ b.phyBackup = a.phyBackup
        /\ b.backup = a.backup
    BY <1>2 DEF Busy
  <1> HIDE DEF a, b
  <1>5. task'[t] = b /\ task' \in [Task -> {Idle} \cup Busy] /\ b # Idle
        /\ \A u \in Task \ {t} : task'[u] = Idle
    BY <1>1, <1>2, <1>3, InvParts, BusyFields
  <1>7. BackupRight(task[t])'
    BY <1>1, <1>2, <1>4, <1>5 DEF BackupRight
  <1>8. MdioRight(task[t])'
    BY <1>1, <1>2, <1>4, <1>5 DEF MdioRight, chip
  <1>10. ChainRight'
    BY <1>1 DEF ChainRight, RegsInv, chip
  <1> QED BY <1>1, <1>5, <1>7, <1>8, <1>10, TypedParts, InvFrom
          DEF Typed, chip, hist

\* An operation ends in any of its accesses: the interrupt is on again if the bus is free.
LEMMA EndsRight ==
  ASSUME Alone, RegsInv, NEW t \in Task, task[t].pc \in {"wait", "go"}, Ends(t),
         UNCHANGED <<spi, event, ops, pin, events>>, overlap' = FALSE, wrong' = FALSE,
         mdio' \in [addr : Reg, reg : Reg, done : BOOLEAN, data : Reg], ChainRight'
  PROVE  RegsInv'
  <1> DEFINE a == task[t]
  <1>1. /\ irq' = (irq \/ (a.backup \/ a.phyBackup)) /\ pendingCtrl' = FALSE
        /\ task' = [task EXCEPT ![t] = Idle]
    BY DEF Ends, Left
  <1>2. a \in Busy /\ BackupRight(a) /\ MdioRight(a) /\ Solo(t)
    BY AtWork DEF Alone
  <1>3. task'[t] = Idle /\ task' \in [Task -> {Idle} \cup Busy]
        /\ \A u \in Task \ {t} : task'[u] = Idle
    BY <1>1, <1>2, InvParts
  <1>4. a.backup \/ a.phyBackup
    BY <1>2 DEF BackupRight
  <1>5. irq' \in BOOLEAN /\ irq'
    BY <1>1, <1>4
  <1> QED BY <1>1, <1>3, <1>5, TypedParts, InvFrom
          DEF Typed, Spi

LEMMA TimesOutRight ==
  ASSUME Alone, RegsInv, NEW t \in Task, TimesOut(t)
  PROVE  RegsInv'
  <1>1. /\ task[t].pc = "wait" /\ Ends(t)
        /\ UNCHANGED <<spi, mdio, pin, events, event, ops, overlap, wrong>>
    BY DEF TimesOut, chip, hist
  <1>2. overlap' = FALSE /\ wrong' = FALSE /\ ChainRight'
        /\ mdio' \in [addr : Reg, reg : Reg, done : BOOLEAN, data : Reg]
    BY <1>1 DEF RegsInv, ChainRight
  <1> QED BY <1>1, <1>2, EndsRight

LEMMA AccessFailsRight ==
  ASSUME Alone, RegsInv, NEW t \in Task, AccessFails(t)
  PROVE  RegsInv'
  <1>1. /\ task[t].pc = "go" /\ Ends(t) /\ overlap' = (overlap \/ spi # "ready")
        /\ UNCHANGED <<spi, mdio, pin, events, event, ops, wrong>>
    BY DEF AccessFails, chip
  <1>2. spi = "ready"
    BY <1>1, AtWork DEF Alone, MdioRight
  <1>3. overlap' = FALSE /\ wrong' = FALSE /\ ChainRight'
        /\ mdio' \in [addr : Reg, reg : Reg, done : BOOLEAN, data : Reg]
    BY <1>1, <1>2 DEF RegsInv, ChainRight
  <1> QED BY <1>1, <1>3, EndsRight

\* What an access of the task leaves alone.
Kept ==
  /\ UNCHANGED <<spi, event, ops, pin, events>> /\ overlap' = FALSE /\ wrong' = FALSE
  /\ mdio' \in [addr : Reg, reg : Reg, done : BOOLEAN, data : Reg]
\* The MDIO registers are ready for access k of the operation.
Prepared(t, k) ==
  /\ k \in DOMAIN Accesses(task[t].op)
  /\ k = 2 => mdio'.addr = task[t].op.reg
  /\ k = 3 => mdio'.reg = task[t].op.reg /\ (mdio'.done => mdio'.data = task[t].op.reg)
  /\ k = 4 => mdio'.done /\ mdio'.data = task[t].op.reg

\* An operation goes on with its next access.
LEMMA ContinuesRight ==
  ASSUME Alone, RegsInv, NEW t \in Task, task[t].pc = "go", NEW k \in 1..4, NEW n \in 0..MaxPoll,
         Continues(t, k, n), Kept, Prepared(t, k)
  PROVE  RegsInv'
  <1> DEFINE a == task[t]
             b == [a EXCEPT !.pc = "enter", !.k = k, !.polls = n]
  <1>1. /\ irq' = (irq \/ a.backup) /\ pendingCtrl' = FALSE
        /\ task' = [task EXCEPT ![t] = b]
    BY DEF Continues, Left
  <1>2. a \in Busy /\ BackupRight(a) /\ MdioRight(a) /\ a.pc = "go" /\ Solo(t)
    BY AtWork DEF Alone
  <1>3. b \in Busy
    BY <1>2 DEF Busy
  <1>4. /\ b.pc = "enter" /\ b.op = a.op /\ b.k = k /\ b.phyBackup = a.phyBackup
    BY <1>2 DEF Busy
  <1>5. spi = "ready" /\ ChainRight'
    BY <1>2 DEF MdioRight, ChainRight, Kept
  <1>6. irq' \in BOOLEAN /\ (irq' <=> irq \/ a.backup)
    BY <1>1
  <1>7. a.phyBackup \/ a.backup
    BY <1>2 DEF BackupRight
  <1> HIDE DEF b
  <1>8. task'[t] = b /\ task' \in [Task -> {Idle} \cup Busy] /\ b # Idle
        /\ \A u \in Task \ {t} : task'[u] = Idle
    BY <1>1, <1>2, <1>3, InvParts, BusyFields
  <1>9. BackupRight(task[t])'
    BY <1>1, <1>4, <1>6, <1>7, <1>8 DEF BackupRight
  <1>10. MdioRight(task[t])'
    BY <1>2, <1>4, <1>5, <1>8 DEF MdioRight, Kept, Prepared
  <1> HIDE DEF a
  <1> QED BY <1>1, <1>5, <1>6, <1>8, <1>9, <1>10, TypedParts, InvFrom
          DEF Typed, Spi, Kept

LEMMA AccessRight ==
  ASSUME Alone, RegsInv, NEW t \in Task, Access(t)
  PROVE  RegsInv'
  <1> DEFINE a == task[t]
             o == a.op
             step == Accesses(o)[a.k]
             Type == [addr : Reg, reg : Reg, done : BOOLEAN, data : Reg]
  <1>1. /\ a.pc = "go"
        /\ overlap' = (overlap \/ spi # "ready")
        /\ mdio' = CASE step = "addr"  -> [mdio EXCEPT !.addr = o.reg]
                     [] step = "start" -> [mdio EXCEPT !.reg = mdio.addr, !.done = FALSE]
                     [] OTHER          -> mdio
        /\ wrong' = (wrong \/ (step = "data" /\ mdio.data # o.reg))
        /\ IF step = "poll" /\ ~mdio.done
           THEN IF a.polls < MaxPoll THEN Continues(t, a.k, a.polls + 1)
                ELSE Ends(t)
           ELSE IF a.k = Len(Accesses(o)) THEN Ends(t)
           ELSE Continues(t, a.k + 1, a.polls)
        /\ UNCHANGED <<spi, event, ops, pin, events>>
    BY DEF Access, PollDone, PollsOn
  <1>2. a \in Busy /\ MdioRight(a) /\ mdio \in Type /\ overlap = FALSE /\ wrong = FALSE
    BY <1>1, AtWork DEF Alone, RegsInv
  <1>3. /\ a.k \in 1..4 /\ o \in Op /\ a.polls \in 0..MaxPoll /\ o.reg \in Reg
        /\ a.k \in DOMAIN Accesses(o) /\ spi = "ready"
    BY <1>1, <1>2, BusyFields, OpIs DEF MdioRight
  <1>4. /\ a.k = 1 => step = "addr" /\ a.k # Len(Accesses(o)) /\ 2 \in DOMAIN Accesses(o)
        /\ a.k = 2 => step = "start" /\ a.k # Len(Accesses(o)) /\ 3 \in DOMAIN Accesses(o)
        /\ a.k = 3 => /\ step = "poll"
                      /\ a.k # Len(Accesses(o)) => 4 \in DOMAIN Accesses(o)
        /\ a.k = 4 => step = "data" /\ a.k = Len(Accesses(o))
    <2>1. \/ /\ Accesses(o) = <<"addr", "start", "poll", "data">>
             /\ Len(Accesses(o)) = 4 /\ DOMAIN Accesses(o) = 1..4
          \/ /\ Accesses(o) = <<"addr", "start", "poll">>
             /\ Len(Accesses(o)) = 3 /\ DOMAIN Accesses(o) = 1..3
      BY <1>3, OpIs
    <2> HIDE DEF a, o
    <2>2. CASE Len(Accesses(o)) = 4
      BY <1>3, <2>1, <2>2
    <2>3. CASE Len(Accesses(o)) = 3
      BY <1>3, <2>1, <2>3
    <2> QED BY <2>1, <2>2, <2>3
  <1>5. overlap' = FALSE
    BY <1>1, <1>2, <1>3
  <1>6. ASSUME mdio' \in Type PROVE ChainRight'
    BY <1>1, <1>3 DEF ChainRight
  <1>7. MaxPoll \in Nat
    BY DEF Alone, AdinRegsAssumption
  <1> HIDE DEF step, Type
  <1>8. CASE a.k = 1
    <2>1. mdio' = [mdio EXCEPT !.addr = o.reg] /\ wrong' = FALSE
      BY <1>1, <1>2, <1>4, <1>8
    <2>2. Continues(t, 2, a.polls)
      <3>1. Continues(t, a.k + 1, a.polls)
        BY <1>1, <1>4, <1>8
      <3>2. a.k + 1 = 2
        BY <1>8
      <3> QED BY <3>1, <3>2
    <2>3. mdio' \in Type /\ mdio'.addr = o.reg
      BY <1>2, <1>3, <2>1 DEF Type
    <2>4. Kept /\ Prepared(t, 2)
      BY <1>1, <1>4, <1>5, <1>8, <2>1, <2>3 DEF Type, Kept, Prepared
    <2> QED BY <1>1, <1>3, <2>4, <2>2, ContinuesRight
  <1>9. CASE a.k = 2
    <2>1. mdio' = [mdio EXCEPT !.reg = mdio.addr, !.done = FALSE] /\ wrong' = FALSE
      BY <1>1, <1>2, <1>4, <1>9
    <2>2. Continues(t, 3, a.polls)
      <3>1. Continues(t, a.k + 1, a.polls)
        BY <1>1, <1>4, <1>9
      <3>2. a.k + 1 = 3
        BY <1>9
      <3> QED BY <3>1, <3>2
    <2>3. mdio.addr = o.reg
      BY <1>2, <1>9 DEF MdioRight
    <2>4. mdio' \in Type /\ mdio'.reg = o.reg /\ ~mdio'.done
      BY <1>2, <1>3, <2>1, <2>3 DEF Type
    <2>5. Kept /\ Prepared(t, 3)
      BY <1>1, <1>4, <1>5, <1>9, <2>1, <2>4 DEF Type, Kept, Prepared
    <2> QED BY <1>1, <1>3, <2>5, <2>2, ContinuesRight
  <1>10. CASE a.k = 3
    <2>1. mdio' = mdio /\ wrong' = FALSE
      BY <1>1, <1>2, <1>4, <1>10
    <2>2. mdio.reg = o.reg /\ (mdio.done => mdio.data = o.reg)
      BY <1>2, <1>10 DEF MdioRight
    <2>3. CASE Ends(t)
      BY <1>1, <1>2, <1>5, <1>6, <2>1, <2>3, EndsRight DEF Type
    <2>4. CASE ~mdio.done /\ a.polls < MaxPoll /\ Continues(t, 3, a.polls + 1)
      <3>1. a.polls + 1 \in 0..MaxPoll
        BY <1>3, <1>7, <2>4
      <3>2. Kept
        BY <1>1, <1>2, <1>5, <2>1 DEF Type, Kept
      <3>3. Prepared(t, 3)
        BY <1>3, <1>10, <2>1, <2>2 DEF Prepared
      <3> QED BY <1>1, <2>4, <3>1, <3>2, <3>3, ContinuesRight
    <2>5. CASE mdio.done /\ a.k # Len(Accesses(o)) /\ Continues(t, 4, a.polls)
      <3>1. Kept /\ Prepared(t, 4)
        BY <1>1, <1>2, <1>4, <1>5, <1>10, <2>1, <2>2, <2>5 DEF Type, Kept, Prepared
      <3> QED BY <1>1, <1>3, <2>5, <3>1, ContinuesRight
    <2> QED BY <1>1, <1>4, <1>10, <2>3, <2>4, <2>5
  <1>11. CASE a.k = 4
    <2>1. mdio.data = o.reg
      BY <1>2, <1>11 DEF MdioRight
    <2>2. mdio' = mdio /\ wrong' = FALSE /\ Ends(t)
      BY <1>1, <1>2, <1>4, <1>11, <2>1
    <2> QED BY <1>1, <1>2, <1>5, <1>6, <2>2, EndsRight DEF Type
  <1> QED BY <1>3, <1>8, <1>9, <1>10, <1>11

-----------------------------------------------------------------------------
(* Frames, interrupts and the chip *)

LEMMA SendFrameRight ==
  ASSUME Alone, RegsInv, SendFrame
  PROVE  RegsInv'
  <1>1. /\ (\A t \in Task : task[t] = Idle) /\ ops < MaxOp /\ ops' = ops + 1 /\ irq' = FALSE /\ spi' = "data"
        /\ UNCHANGED <<pendingCtrl, mdio, pin, events, event, task, overlap, wrong>>
    BY DEF SendFrame, chip, hist, Turn, Alone
  <1>2. ops' \in 0..MaxOp
    BY <1>1 DEF RegsInv, Alone, AdinRegsAssumption
  <1>3. ChainRight'
    BY <1>1 DEF ChainRight
  <1>4. ~pendingCtrl
    BY <1>1 DEF RegsInv
  <1>20. Typed'
    BY <1>1, <1>2, <1>3, <1>4, TypedParts DEF Typed, Spi
  <1>21. (\A t \in Task : task[t] = Idle) => ~pendingCtrl' /\ (spi' = "ready" => irq')
    BY <1>1, <1>2, <1>3, <1>4, InvParts DEF RegsInv
  <1> QED BY <1>1, <1>2, <1>3, <1>4, <1>20, <1>21, InvStays

LEMMA InterruptRight ==
  ASSUME Alone, RegsInv, Interrupt
  PROVE  RegsInv'
  <1>1. /\ event' = TRUE
        /\ UNCHANGED <<irq, pendingCtrl, spi, mdio, pin, events, task, ops, overlap, wrong>>
    BY DEF Interrupt, chip, hist
  <1>2. ChainRight'
    BY <1>1 DEF ChainRight, RegsInv
  <1>3. \A t \in Task : task[t] # Idle => BackupRight(task[t])' /\ MdioRight(task[t])'
    BY <1>1 DEF RegsInv, BackupRight, MdioRight
  <1>20. Typed'
    BY <1>1, <1>2, <1>3, TypedParts DEF Typed, Spi
  <1>21. (\A t \in Task : task[t] = Idle) => ~pendingCtrl' /\ (spi' = "ready" => irq')
    BY <1>1, <1>2, <1>3, InvParts DEF RegsInv
  <1> QED BY <1>1, <1>2, <1>3, <1>20, <1>21, InvStays

LEMMA oaIrqHandlerRight ==
  ASSUME Alone, RegsInv, oaIrqHandler
  PROVE  RegsInv'
  <1>1. /\ event' = FALSE /\ (\A t \in Task : task[t] = Idle)
        /\ IF spi = "ready" THEN spi' = "data" /\ irq' = FALSE ELSE UNCHANGED <<spi, irq>>
        /\ UNCHANGED <<pendingCtrl, mdio, pin, events, task, ops, overlap, wrong>>
    BY DEF oaIrqHandler, chip, hist, Turn, Alone
  <1>2. ~pendingCtrl /\ irq \in BOOLEAN /\ spi \in Spi /\ ChainRight
    BY <1>1, InvParts DEF RegsInv, Spi, Alone
  <1>3. spi' \in Spi /\ irq' \in BOOLEAN /\ spi' # "ready"
    BY <1>1, <1>2 DEF Spi
  <1>4. ChainRight'
    BY <1>1, <1>2 DEF ChainRight
  <1>20. Typed'
    BY <1>1, <1>2, <1>3, <1>4, TypedParts DEF Typed, Spi
  <1>21. (\A t \in Task : task[t] = Idle) => ~pendingCtrl' /\ (spi' = "ready" => irq')
    BY <1>1, <1>2, <1>3, <1>4, InvParts DEF RegsInv
  <1> QED BY <1>1, <1>2, <1>3, <1>4, <1>20, <1>21, InvStays

\* Steps of the bus that leave it busy, and the interrupt as it is.
LEMMA StillBusy ==
  ASSUME Alone, RegsInv, spi # "ready", spi' \in Spi, spi' # "ready", ChainRight',
         mdio' \in [addr : Reg, reg : Reg, done : BOOLEAN, data : Reg],
         UNCHANGED <<irq, pendingCtrl, pin, events, event, task, ops, overlap, wrong>>
  PROVE  RegsInv'
  <1>1. \A t \in Task : task[t] # Idle => BackupRight(task[t]) /\ MdioRight(task[t])
    BY DEF RegsInv
  <1>2. ASSUME NEW t \in Task, task[t] # Idle
        PROVE  task[t].k = 1 /\ task[t].pc # "go" /\ task[t] \in Busy
    <2>1. task[t] \in Busy
      BY <1>2, InvParts
    <2> QED BY <1>1, <1>2, <2>1, BusyFields DEF MdioRight
  <1>3. \A t \in Task : task[t] # Idle => BackupRight(task[t])'
    BY <1>1 DEF BackupRight
  <1>4. \A t \in Task : task[t] # Idle => MdioRight(task[t])'
    BY <1>1, <1>2 DEF MdioRight
  <1>20. Typed'
    BY <1>3, <1>4, TypedParts DEF Typed, Spi
  <1>21. (\A t \in Task : task[t] = Idle) => ~pendingCtrl' /\ (spi' = "ready" => irq')
    BY <1>3, <1>4, InvParts DEF RegsInv
  <1> QED BY <1>3, <1>4, <1>20, <1>21, InvStays

\* The bus becomes free: the interrupt is on again, or a task that waits turns it on.
LEMMA BusReadyRight ==
  ASSUME Alone, RegsInv, spi # "ready", BusReady, (\A t \in Task : task[t].pc # "off"),
         pin' \in BOOLEAN, wrong' = FALSE,
         UNCHANGED <<pendingCtrl, mdio, events, event, task, ops, overlap>>
  PROVE  RegsInv'
  <1>1. spi' = "ready" /\ irq' = (irq \/ ~pendingCtrl)
    BY DEF BusReady
  <1>2. irq' \in BOOLEAN /\ (irq' <=> irq \/ ~pendingCtrl)
    BY <1>1
  <1>3. ChainRight'
    BY <1>1 DEF ChainRight
  <1>4. \A t \in Task : task[t] # Idle => BackupRight(task[t]) /\ MdioRight(task[t])
    BY DEF RegsInv
  <1>5. \A t \in Task : task[t] # Idle => BackupRight(task[t])'
    BY <1>1, <1>2, <1>4 DEF BackupRight
  <1>6. \A t \in Task : task[t] # Idle => MdioRight(task[t])'
    BY <1>1, <1>4 DEF MdioRight
  <1>20. Typed'
    BY <1>1, <1>2, <1>3, <1>5, <1>6, TypedParts DEF Typed, Spi
  <1>21. (\A t \in Task : task[t] = Idle) => ~pendingCtrl' /\ (spi' = "ready" => irq')
    BY <1>1, <1>2, <1>3, <1>5, <1>6, InvParts DEF RegsInv
  <1> QED BY <1>1, <1>2, <1>3, <1>5, <1>6, <1>20, <1>21, InvStays

LEMMA BusRight ==
  ASSUME Alone, RegsInv, Bus, (\A t \in Task : task[t].pc # "off")
  PROVE  RegsInv'
  <1>1. CASE DataEnd
    <2>1. CASE pin
      <3>1. /\ spi = "data" /\ spi' = "phyStart"
            /\ UNCHANGED <<irq, pendingCtrl, mdio, pin, events, event, task, ops, overlap, wrong>>
        BY <1>1, <2>1 DEF DataEnd, Exst, chip, hist
      <3>2. ChainRight' /\ spi' \in Spi
        BY <3>1 DEF ChainRight, Spi
      <3> QED BY <3>1, <3>2, StillBusy, InvParts
    <2>2. CASE ~pin
      <3>1. /\ spi = "data" /\ BusReady
            /\ UNCHANGED <<pendingCtrl, mdio, pin, events, event, task, ops, overlap, wrong>>
        BY <1>1, <2>2 DEF DataEnd, Exst, chip, hist
      <3>2. pin' \in BOOLEAN /\ wrong' = FALSE
        BY <3>1, InvParts DEF RegsInv
      <3> QED BY <3>1, <3>2, BusReadyRight
    <2> QED BY <2>1, <2>2
  <1>2. CASE oaPhyRegReadStart
    <2>1. /\ spi = "phyStart" /\ spi' = "phyStep"
          /\ mdio' = [mdio EXCEPT !.addr = "IRQ_STATUS"]
          /\ UNCHANGED <<irq, pendingCtrl, pin, events, event, task, ops, overlap, wrong>>
      BY <1>2 DEF oaPhyRegReadStart, hist
    <2>2. "IRQ_STATUS" \in Reg
      BY DEF Reg
    <2>3. /\ mdio' \in [addr : Reg, reg : Reg, done : BOOLEAN, data : Reg]
          /\ mdio'.addr = "IRQ_STATUS"
      BY <2>1, <2>2, InvParts
    <2>4. ChainRight' /\ spi' \in Spi
      BY <2>1, <2>3 DEF ChainRight, Spi
    <2> QED BY <2>1, <2>3, <2>4, StillBusy
  <1>3. CASE oaPhyRegReadStep
    <2>1. /\ spi = "phyStep" /\ spi' = "phyPoll"
          /\ mdio' = [mdio EXCEPT !.reg = mdio.addr, !.done = FALSE]
          /\ UNCHANGED <<irq, pendingCtrl, pin, events, event, task, ops, overlap, wrong>>
      BY <1>3 DEF oaPhyRegReadStep, hist
    <2>2. mdio.addr = "IRQ_STATUS"
      BY <2>1 DEF RegsInv, ChainRight
    <2>3. /\ mdio' \in [addr : Reg, reg : Reg, done : BOOLEAN, data : Reg]
          /\ mdio'.reg = "IRQ_STATUS" /\ ~mdio'.done
      BY <2>1, <2>2, InvParts
    <2>4. ChainRight' /\ spi' \in Spi
      BY <2>1, <2>3 DEF ChainRight, Spi
    <2> QED BY <2>1, <2>3, <2>4, StillBusy
  <1>4. CASE ReadPhyRegister
    <2>1. /\ spi = "phyPoll" /\ mdio.done
          /\ wrong' = (wrong \/ mdio.data # "IRQ_STATUS")
          /\ pin' = (pin /\ mdio.data # "IRQ_STATUS")
          /\ BusReady
          /\ UNCHANGED <<pendingCtrl, mdio, events, event, task, ops, overlap>>
      BY <1>4 DEF ReadPhyRegister
    <2>2. mdio.data = "IRQ_STATUS" /\ wrong = FALSE
      BY <2>1 DEF RegsInv, ChainRight
    <2>3. wrong' = FALSE /\ pin' \in BOOLEAN
      BY <2>1, <2>2
    <2> QED BY <2>1, <2>3, BusReadyRight
  <1> QED BY <1>1, <1>2, <1>3, <1>4 DEF Bus

\* The chip has done the operation that the MDIO registers ask for.
LEMMA MdioDoneRight ==
  ASSUME Alone, RegsInv, MdioDone
  PROVE  RegsInv'
  <1>1. /\ ~mdio.done
        /\ mdio' = [mdio EXCEPT !.done = TRUE, !.data = mdio.reg]
        /\ UNCHANGED <<irq, pendingCtrl, spi, pin, events, event, task, ops, overlap, wrong>>
    BY DEF MdioDone, hist
  <1>2. /\ mdio' \in [addr : Reg, reg : Reg, done : BOOLEAN, data : Reg]
        /\ mdio'.addr = mdio.addr /\ mdio'.reg = mdio.reg /\ mdio'.done /\ mdio'.data = mdio.reg
    BY <1>1, InvParts
  <1>3. ChainRight'
    BY <1>1, <1>2 DEF ChainRight, RegsInv
  <1>4. \A t \in Task : task[t] # Idle => BackupRight(task[t]) /\ MdioRight(task[t])
    BY DEF RegsInv
  <1>5. \A t \in Task : task[t] # Idle => BackupRight(task[t])'
    BY <1>1, <1>4 DEF BackupRight
  <1>6. \A t \in Task : task[t] # Idle => MdioRight(task[t])'
    BY <1>1, <1>2, <1>4 DEF MdioRight
  <1>20. Typed'
    BY <1>1, <1>2, <1>3, <1>5, <1>6, TypedParts DEF Typed, Spi
  <1>21. (\A t \in Task : task[t] = Idle) => ~pendingCtrl' /\ (spi' = "ready" => irq')
    BY <1>1, <1>2, <1>3, <1>5, <1>6, InvParts DEF RegsInv
  <1> QED BY <1>1, <1>2, <1>3, <1>5, <1>6, <1>20, <1>21, InvStays

LEMMA PhyEventRight ==
  ASSUME Alone, RegsInv, PhyEvent
  PROVE  RegsInv'
  <1>1. /\ events < MaxEvent /\ events' = events + 1 /\ pin' = TRUE
        /\ UNCHANGED <<irq, pendingCtrl, spi, mdio, event, task, ops, overlap, wrong>>
    BY DEF PhyEvent, hist
  <1>2. events' \in 0..MaxEvent
    BY <1>1 DEF RegsInv, Alone, AdinRegsAssumption
  <1>3. ChainRight'
    BY <1>1 DEF ChainRight, RegsInv
  <1>4. \A t \in Task : task[t] # Idle => BackupRight(task[t])' /\ MdioRight(task[t])'
    BY <1>1 DEF RegsInv, BackupRight, MdioRight
  <1>20. Typed'
    BY <1>1, <1>2, <1>3, <1>4, TypedParts DEF Typed, Spi
  <1>21. (\A t \in Task : task[t] = Idle) => ~pendingCtrl' /\ (spi' = "ready" => irq')
    BY <1>1, <1>2, <1>3, <1>4, InvParts DEF RegsInv
  <1> QED BY <1>1, <1>2, <1>3, <1>4, <1>20, <1>21, InvStays

LEMMA StutterRight ==
  ASSUME Alone, RegsInv, UNCHANGED vars
  PROVE  RegsInv'
  <1>1. UNCHANGED <<irq, pendingCtrl, spi, mdio, pin, events, event, task, ops, overlap, wrong>>
    BY DEF vars, chip, hist
  <1>2. ChainRight'
    BY <1>1 DEF ChainRight, RegsInv
  <1>3. \A t \in Task : task[t] # Idle => BackupRight(task[t])' /\ MdioRight(task[t])'
    BY <1>1 DEF RegsInv, BackupRight, MdioRight
  <1>20. Typed'
    BY <1>1, <1>2, <1>3, TypedParts DEF Typed, Spi
  <1>21. (\A t \in Task : task[t] = Idle) => ~pendingCtrl' /\ (spi' = "ready" => irq')
    BY <1>1, <1>2, <1>3, InvParts DEF RegsInv
  <1> QED BY <1>1, <1>2, <1>3, <1>20, <1>21, InvStays

LEMMA InitRight ==
  ASSUME Alone, Init PROVE RegsInv
  <1>1. {irq, pendingCtrl, pin, event} \subseteq BOOLEAN
    BY DEF Init
  <1>2. mdio \in [addr : Reg, reg : Reg, done : BOOLEAN, data : Reg]
    BY DEF Init, Reg
  <1>3. task \in [Task -> {Idle} \cup Busy] /\ \A t \in Task : task[t] = Idle
    BY DEF Init
  <1> QED BY <1>1, <1>2, <1>3 DEF Init, RegsInv, ChainRight, Alone, AdinRegsAssumption

LEMMA NextRight ==
  ASSUME Alone, RegsInv, [Next]_vars
  PROVE  RegsInv'
  <1>1. ASSUME NEW t \in Task, \E o \in Uses(t) : PhyBegins(t, o) PROVE RegsInv'
    BY <1>1, PhyBeginsRight
  <1>2. ASSUME NEW t \in Task, TaskStep(t) PROVE RegsInv'
    BY <1>2, PhyOffRight, EnterRight, WaitRight, AccessRight DEF TaskStep
  <1>3. ASSUME NEW t \in Task, TimesOut(t) \/ AccessFails(t) PROVE RegsInv'
    BY <1>3, TimesOutRight, AccessFailsRight
  <1>4. CASE SendFrame \/ Interrupt \/ oaIrqHandler
    BY <1>4, SendFrameRight, InterruptRight, oaIrqHandlerRight
  <1>5. CASE (\A t \in Task : task[t].pc # "off") /\ Bus
    BY <1>5, BusRight
  <1>6. CASE MdioDone \/ PhyEvent
    BY <1>6, MdioDoneRight, PhyEventRight
  <1>7. CASE UNCHANGED vars
    BY <1>7, StutterRight
  <1> QED BY <1>1, <1>2, <1>3, <1>4, <1>5, <1>6, <1>7 DEF Next, Alone

LEMMA InvApart ==
  ASSUME Alone, RegsInv PROVE AccessesAreApart
  <1>1. {irq, pendingCtrl, pin, event, overlap, wrong} \subseteq BOOLEAN
    BY InvParts DEF RegsInv
  <1>2. ASSUME NEW t \in Task
        PROVE  \/ task[t] = Idle
               \/ /\ task[t].pc \in {"off", "enter", "wait", "go"}
                  /\ task[t].polls <= MaxPoll
                  /\ task[t].k \in DOMAIN Accesses(task[t].op)
    <2>1. CASE task[t] \in Busy
      <3>1. MdioRight(task[t])
        BY <2>1, BusyFields DEF RegsInv
      <3> QED BY <2>1, <3>1, BusyFields DEF MdioRight, Alone, AdinRegsAssumption
    <2> QED BY <2>1, InvParts
  <1>3. TypeOK
    BY <1>1, <1>2 DEF TypeOK, RegsInv, Alone, AdinRegsAssumption
  <1>4. ReadIsOfAsked /\ NoOverlap
    BY DEF ReadIsOfAsked, NoOverlap, RegsInv
  <1>5. IrqBack
    BY DEF IrqBack, RegsInv
  <1> QED BY <1>3, <1>4, <1>5 DEF AccessesAreApart

\* Where the tasks that use the driver, the link layer's, the timer's that
\* renegotiates and the application's that switches ports, take turns (which
\* the code leaves to its callers), and PHY_Read is not interrupted before it
\* has turned the interrupt off: for any number of polls, operations and
\* events of the PHYs, accesses that fail or time out included, what is read
\* from a PHY is the register that was asked for though the MDIO registers
\* are shared with the interrupt chain, no transfer starts in another, and
\* whoever turned the interrupt off leaves somebody to turn it on again
\* (MAC_PhyRead, MAC_ReadRegister, oaStateMachine).
THEOREM AccessesApart ==
  ASSUME AdinRegsAssumption, ~Together, ~Preempt
  PROVE  Spec => []AccessesAreApart
  <1> Alone
    BY DEF Alone
  <1>1. Init => RegsInv
    BY InitRight
  <1>2. RegsInv /\ [Next]_vars => RegsInv'
    BY NextRight
  <1>3. RegsInv => AccessesAreApart
    BY InvApart
  <1> QED BY <1>1, <1>2, <1>3, PTL DEF Spec

-----------------------------------------------------------------------------
(* The steps of the bring-up *)

\* What is in a sequence of steps and in two one after the other.
In(s) == {s[i] : i \in 1..Len(s)}

LEMMA InCat ==
  ASSUME NEW X, NEW s \in Seq(X), NEW t \in Seq(X)
  PROVE  s \o t \in Seq(X) /\ In(s \o t) = In(s) \cup In(t) /\ Len(s \o t) = Len(s) + Len(t)
         /\ DOMAIN (s \o t) = 1..(Len(s) + Len(t)) /\ Len(s) \in Nat
         /\ \A i \in 1..Len(s) : (s \o t)[i] = s[i]
  <1>1. s \o t \in Seq(X) /\ Len(s \o t) = Len(s) + Len(t) /\ Len(s) \in Nat /\ Len(t) \in Nat
    OBVIOUS
  <1>2. \A i \in 1..(Len(s) + Len(t)) : (s \o t)[i] = IF i <= Len(s) THEN s[i] ELSE t[i - Len(s)]
    OBVIOUS
  <1>3. ASSUME NEW x \in In(s \o t) PROVE x \in In(s) \cup In(t)
    <2>1. PICK i \in 1..Len(s \o t) : x = (s \o t)[i]
      BY DEF In
    <2>2. CASE i <= Len(s)
      <3>1. i \in 1..Len(s) /\ x = s[i]
        BY <1>1, <1>2, <2>1, <2>2
      <3> QED BY <3>1 DEF In
    <2>3. CASE ~(i <= Len(s))
      <3>1. i - Len(s) \in 1..Len(t) /\ x = t[i - Len(s)]
        BY <1>1, <1>2, <2>1, <2>3
      <3> QED BY <3>1 DEF In
    <2> QED BY <2>2, <2>3
  <1>4. ASSUME NEW x \in In(s) PROVE x \in In(s \o t)
    <2>1. PICK i \in 1..Len(s) : x = s[i]
      BY <1>4 DEF In
    <2>2. i \in 1..Len(s \o t) /\ x = (s \o t)[i]
      BY <1>1, <1>2, <2>1
    <2> QED BY <2>2 DEF In
  <1>5. ASSUME NEW x \in In(t) PROVE x \in In(s \o t)
    <2>1. PICK i \in 1..Len(t) : x = t[i]
      BY <1>5 DEF In
    <2>2. i + Len(s) \in 1..Len(s \o t) /\ x = (s \o t)[i + Len(s)]
      BY <1>1, <1>2, <2>1
    <2> QED BY <2>2 DEF In
  <1>6. DOMAIN (s \o t) = 1..(Len(s) + Len(t)) /\ \A i \in 1..Len(s) : (s \o t)[i] = s[i]
    BY <1>1, <1>2
  <1> QED BY <1>1, <1>3, <1>4, <1>5, <1>6

\* A list of steps, and what is in it.
Steps(s, S) == s \in Seq(S) /\ In(s) = S

LEMMA Joined ==
  ASSUME NEW s, NEW t, NEW S, NEW T, Steps(s, S), Steps(t, T)
  PROVE  Steps(s \o t, S \cup T)
  <1>1. s \in Seq(S \cup T) /\ t \in Seq(S \cup T)
    BY DEF Steps
  <1> QED BY <1>1, InCat DEF Steps

LEMMA WithLast ==
  ASSUME NEW s, NEW t, NEW S, NEW T, Steps(s, S), Steps(t, T), Len(t) = 1
  PROVE  /\ Len(s) \in Nat /\ DOMAIN (s \o t) = 1..(Len(s) + 1)
         /\ \A i \in 1..Len(s) : (s \o t)[i] = s[i]
  <1> DEFINE X == S \cup T
  <1>1. s \in Seq(X) /\ t \in Seq(X)
    BY DEF Steps
  <1> HIDE DEF X
  <1>2. /\ DOMAIN (s \o t) = 1..(Len(s) + Len(t)) /\ Len(s) \in Nat
        /\ \A i \in 1..Len(s) : (s \o t)[i] = s[i]
    BY <1>1, InCat
  <1> QED BY <1>2

LEMMA OfIs ==
  ASSUME NEW p, NEW s, NEW S, Steps(s, S)
  PROVE  Steps(K!Of(p, s), {<<a, p>> : a \in S}) /\ Len(K!Of(p, s)) = Len(s)
  <1> DEFINE T == {<<a, p>> : a \in S}
  <1>1. DOMAIN s = 1..Len(s) /\ Len(s) \in Nat /\ In(s) = S
    BY DEF Steps
  <1>2. K!Of(p, s) = [i \in 1..Len(s) |-> <<s[i], p>>]
    BY <1>1 DEF K!Of
  <1>3. \A i \in 1..Len(s) : <<s[i], p>> \in T
    BY <1>1 DEF In
  <1>4. K!Of(p, s) \in Seq(T) /\ Len(K!Of(p, s)) = Len(s)
    <2> HIDE DEF T
    <2> QED BY <1>1, <1>2, <1>3, IsASeq
  <1>5. ASSUME NEW x PROVE x \in In(K!Of(p, s)) <=> \E i \in 1..Len(s) : x = <<s[i], p>>
    BY <1>2, <1>4 DEF In
  <1>6. ASSUME NEW x PROVE x \in T <=> \E i \in 1..Len(s) : x = <<s[i], p>>
    BY <1>1, Zenon DEF In
  <1>7. In(K!Of(p, s)) = T
    BY <1>5, <1>6
  <1> QED BY <1>4, <1>7 DEF Steps

LEMMA One ==
  ASSUME NEW a
  PROVE  Steps(<<a>>, {a}) /\ Len(<<a>>) = 1
  <1>1. Len(<<a>>) = 1 /\ <<a>>[1] = a /\ 1..1 = {1}
    OBVIOUS
  <1> QED BY <1>1 DEF In, Steps

LEMMA Two ==
  ASSUME NEW a, NEW b
  PROVE  Steps(<<a, b>>, {a, b})
  <1>1. Len(<<a, b>>) = 2 /\ <<a, b>>[1] = a /\ <<a, b>>[2] = b /\ 1..2 = {1, 2}
    OBVIOUS
  <1> QED BY <1>1 DEF In, Steps

LEMMA Three ==
  ASSUME NEW a, NEW b, NEW c
  PROVE  Steps(<<a, b, c>>, {a, b, c})
  <1>1. /\ Len(<<a, b, c>>) = 3 /\ <<a, b, c>>[1] = a /\ <<a, b, c>>[2] = b
        /\ <<a, b, c>>[3] = c /\ 1..3 = {1, 2, 3}
    OBVIOUS
  <1> QED BY <1>1 DEF In, Steps

LEMMA Five ==
  ASSUME NEW a, NEW b, NEW c, NEW d, NEW e
  PROVE  Steps(<<a, b, c, d, e>>, {a, b, c, d, e})
  <1>1. /\ Len(<<a, b, c, d, e>>) = 5 /\ <<a, b, c, d, e>>[1] = a /\ <<a, b, c, d, e>>[2] = b
        /\ <<a, b, c, d, e>>[3] = c /\ <<a, b, c, d, e>>[4] = d /\ <<a, b, c, d, e>>[5] = e
        /\ 1..5 = {1, 2, 3, 4, 5}
    OBVIOUS
  <1> QED BY <1>1 DEF In, Steps

LEMMA OfOne ==
  ASSUME NEW p, NEW a
  PROVE  Steps(K!Of(p, <<a>>), {<<a, p>>}) /\ Len(K!Of(p, <<a>>)) = 1
  <1>1. {<<x, p>> : x \in {a}} = {<<a, p>>}
    OBVIOUS
  <1>2. Steps(K!Of(p, <<a>>), {<<x, p>> : x \in {a}}) /\ Len(K!Of(p, <<a>>)) = 1
    BY One, OfIs, Zenon
  <1> QED BY <1>1, <1>2

LEMMA OfTwo ==
  ASSUME NEW p, NEW a, NEW b
  PROVE  Steps(K!Of(p, <<a, b>>), {<<a, p>>, <<b, p>>})
  <1>1. {<<x, p>> : x \in {a, b}} = {<<a, p>>, <<b, p>>}
    OBVIOUS
  <1>2. Steps(K!Of(p, <<a, b>>), {<<x, p>> : x \in {a, b}})
    BY Two, OfIs, Zenon
  <1> QED BY <1>1, <1>2

LEMMA OfThree ==
  ASSUME NEW p, NEW a, NEW b, NEW c
  PROVE  Steps(K!Of(p, <<a, b, c>>), {<<a, p>>, <<b, p>>, <<c, p>>})
  <1>1. {<<x, p>> : x \in {a, b, c}} = {<<a, p>>, <<b, p>>, <<c, p>>}
    OBVIOUS
  <1>2. Steps(K!Of(p, <<a, b, c>>), {<<x, p>> : x \in {a, b, c}})
    BY Three, OfIs, Zenon
  <1> QED BY <1>1, <1>2

PhySteps(p) == {<<"identity", p>>, <<"powerdown", p>>, <<"mask", p>>, <<"clear", p>>,
                <<"static", p>>, <<"an", p>>}
MacSteps == {<<"imask0", 0>>, <<"imask1", 0>>, <<"hook", 0>>, <<"status", 0>>, <<"crc", 0>>}

LEMMA PhyInitIs ==
  ASSUME NEW p
  PROVE  Steps(K!PHY_Init(p), PhySteps(p))
  <1>1. Steps(K!checkIdentity(p), {<<"identity", p>>})
    BY OfOne DEF K!checkIdentity
  <1>2. Steps(K!Of(p, <<"powerdown", "mask", "clear">>),
              {<<"powerdown", p>>, <<"mask", p>>, <<"clear", p>>})
    BY OfThree
  <1>3. Steps(K!phyStaticConfig(p), {<<"static", p>>})
    BY OfOne DEF K!phyStaticConfig
  <1>4. Steps(K!PHY_AnEnable(p), {<<"an", p>>})
    BY OfOne DEF K!PHY_AnEnable
  <1>5. Steps(K!phyInit(p), (({<<"identity", p>>} \cup {<<"powerdown", p>>, <<"mask", p>>,
                <<"clear", p>>}) \cup {<<"static", p>>}) \cup {<<"an", p>>})
    BY <1>1, <1>2, <1>3, <1>4, Joined, Zenon DEF K!phyInit
  <1>6. (({<<"identity", p>>} \cup {<<"powerdown", p>>, <<"mask", p>>, <<"clear", p>>})
            \cup {<<"static", p>>}) \cup {<<"an", p>>} = PhySteps(p)
    BY DEF PhySteps
  <1> QED BY <1>5, <1>6 DEF K!PHY_Init

LEMMA MacInitIs == Steps(K!macInit, MacSteps)
  <1> DEFINE s == <<"imask0", "imask1", "hook", "status", "crc">>
  <1>1. Steps(s, {"imask0", "imask1", "hook", "status", "crc"})
    BY Five
  <1>2. {<<a, 0>> : a \in {"imask0", "imask1", "hook", "status", "crc"}} = MacSteps
    BY DEF MacSteps
  <1>3. K!macInit = K!Of(0, s)
    BY DEF K!macInit
  <1> HIDE DEF s
  <1>4. Steps(K!Of(0, s), {<<a, 0>> : a \in {"imask0", "imask1", "hook", "status", "crc"}})
    BY <1>1, OfIs, Zenon
  <1> QED BY <1>2, <1>3, <1>4

\* Everything but the last step, with the set of its steps.
Before ==
    ((({<<"memory", 0>>} \cup (({<<"reset", 0>>} \cup {<<"id", 0>>, <<"resetc", 0>>}) \cup MacSteps))
        \cup {<<"config2", 0>>, <<"phy2up", 0>>}) \cup PhySteps(1)) \cup PhySteps(2)
LastBut ==
    ((((Before \cup {<<"unmask", 1>>, <<"unmask", 2>>}) \cup {<<"pins", 0>>})
        \cup {<<"link", 1>>, <<"link", 2>>}) \cup {<<"rx", 0>>}) \cup {<<"sync", 0>>} \cup {<<"up", 1>>}

LEMMA ProgramIs ==
  \E s : /\ Steps(s, LastBut)
         /\ K!Program = s \o K!Of(2, <<"up">>)
  <1> DEFINE A == K!MAC_Init \o K!Of(0, <<"config2", "phy2up">>) \o K!PHY_Init(1) \o K!PHY_Init(2)
             B == <<<<"unmask", 1>>, <<"unmask", 2>>>>
             C == <<<<"link", 1>>, <<"link", 2>>>>
  <1>1. Steps(K!MAC_Init, {<<"memory", 0>>} \cup (({<<"reset", 0>>} \cup {<<"id", 0>>, <<"resetc", 0>>})
                            \cup MacSteps))
    <2>1. Steps(K!Of(0, <<"memory">>), {<<"memory", 0>>}) /\ Steps(K!Of(0, <<"reset">>), {<<"reset", 0>>})
      BY OfOne
    <2>2. Steps(K!waitDeviceReady, {<<"id", 0>>, <<"resetc", 0>>})
      BY OfTwo DEF K!waitDeviceReady
    <2>3. Steps(K!MAC_Reset, ({<<"reset", 0>>} \cup {<<"id", 0>>, <<"resetc", 0>>}) \cup MacSteps)
      BY <2>1, <2>2, MacInitIs, Joined, Zenon DEF K!MAC_Reset
    <2> QED BY <2>1, <2>3, Joined, Zenon DEF K!MAC_Init
  <1>2. Steps(A, Before)
    <2>1. Steps(K!Of(0, <<"config2", "phy2up">>), {<<"config2", 0>>, <<"phy2up", 0>>})
      BY OfTwo
    <2>2. Steps(K!PHY_Init(1), PhySteps(1)) /\ Steps(K!PHY_Init(2), PhySteps(2))
      BY PhyInitIs
    <2> QED BY <1>1, <2>1, <2>2, Joined, Zenon DEF Before
  <1>3. Steps(B, {<<"unmask", 1>>, <<"unmask", 2>>}) /\ Steps(C, {<<"link", 1>>, <<"link", 2>>})
    BY Two
  <1>4. /\ Steps(K!configureTsPins, {<<"pins", 0>>}) /\ Steps(K!Of(0, <<"rx">>), {<<"rx", 0>>})
        /\ Steps(K!MAC_SyncConfig, {<<"sync", 0>>}) /\ Steps(K!adin2111_EnablePort(1), {<<"up", 1>>})
    BY OfOne DEF K!configureTsPins, K!MAC_SyncConfig, K!adin2111_EnablePort
  <1>5. K!adin2111_Init = (A \o B) \o K!configureTsPins
    BY DEF K!adin2111_Init
  <1>6. K!adin2111_RegisterCallback = C
    BY DEF K!adin2111_RegisterCallback
  <1> HIDE DEF A, B, C
  <1> DEFINE s == ((((A \o B) \o K!configureTsPins) \o C) \o K!Of(0, <<"rx">>)) \o K!MAC_SyncConfig
                    \o K!adin2111_EnablePort(1)
  <1>7. Steps(s, LastBut)
    BY <1>2, <1>3, <1>4, Joined, Zenon DEF LastBut
  <1>8. K!Program = s \o K!Of(2, <<"up">>)
    BY <1>5, <1>6 DEF K!Program, K!adin2111_EnablePort
  <1> QED BY <1>7, <1>8

\* What a bring-up does that says BmOK: everything, but for the pins perhaps.
LEMMA CarriedAll ==
  ASSUME K!Unchecked = MacSteps \cup {<<"pins", 0>>},
         MayFail \cap {"imask0", "imask1", "hook", "status", "crc"} = {},
         NEW k \in {0} \cup {i \in DOMAIN K!Program : K!Program[i][1] \in MayFail},
         <<"up", 2>> \in K!Carried(k)
  PROVE  K!Settings \cup {<<"hook", 0>>, <<"resetc", 0>>, <<"up", 1>>} \subseteq K!Carried(k)
  <1>1. PICK s : Steps(s, LastBut) /\ K!Program = s \o K!Of(2, <<"up">>)
    BY ProgramIs
  <1> DEFINE P == K!Program
             n == Len(s)
  <1>2. Steps(K!Of(2, <<"up">>), {<<"up", 2>>}) /\ Len(K!Of(2, <<"up">>)) = 1
    BY OfOne
  <1>3. /\ Steps(P, LastBut \cup {<<"up", 2>>})
        /\ n \in Nat /\ DOMAIN P = 1..(n + 1) /\ \A i \in 1..n : P[i] = s[i]
    <2> DEFINE u == K!Of(2, <<"up">>)
    <2>1. Steps(u, {<<"up", 2>>}) /\ Len(u) = 1 /\ P = s \o u
      BY <1>1, <1>2
    <2> HIDE DEF u, P
    <2>2. Steps(s \o u, LastBut \cup {<<"up", 2>>})
      BY <1>1, <2>1, Joined
    <2>3. n \in Nat /\ DOMAIN (s \o u) = 1..(n + 1) /\ \A i \in 1..n : (s \o u)[i] = s[i]
      BY <1>1, <2>1, WithLast
    <2> QED BY <2>1, <2>2, <2>3
  <1>4. K!Range(P) = LastBut \cup {<<"up", 2>>}
    <2> HIDE DEF P
    <2>1. P \in Seq(LastBut \cup {<<"up", 2>>}) /\ In(P) = LastBut \cup {<<"up", 2>>}
      BY <1>3 DEF Steps
    <2>2. DOMAIN P = 1..Len(P)
      BY <2>1
    <2>3. K!Range(P) = In(P)
      BY <2>2 DEF K!Range, In
    <2> QED BY <2>1, <2>3
  <1>5. <<"up", 2>> \notin LastBut
    BY DEF LastBut, Before, PhySteps, MacSteps
  <1>6. \A i \in 1..n : P[i] # <<"up", 2>>
    BY <1>1, <1>3, <1>5 DEF Steps, In
  <1>7. K!Settings \cup {<<"hook", 0>>, <<"resetc", 0>>, <<"up", 1>>} \subseteq LastBut
    BY DEF K!Settings, LastBut, Before, MacSteps
  <1>8. <<"pins", 0>> \notin K!Settings \cup {<<"hook", 0>>, <<"resetc", 0>>, <<"up", 1>>}
    BY DEF K!Settings
  <1>9. CASE k = 0
    BY <1>4, <1>7, <1>9 DEF K!Carried
  <1>10. CASE k # 0
    <2>1. k \in 1..(n + 1) /\ P[k][1] \in MayFail
      BY <1>3, <1>10
    <2>2. CASE P[k] \in K!Unchecked
      <3>1. P[k] = <<"pins", 0>>
        BY <2>1, <2>2 DEF MacSteps
      <3>2. K!Skipped(k) = {<<"pins", 0>>}
        BY <3>1 DEF K!Skipped
      <3>3. K!Carried(k) = K!Range(P) \ {<<"pins", 0>>}
        BY <1>10, <2>2, <3>2 DEF K!Carried
      <3> QED BY <1>4, <1>7, <1>8, <3>3
    <2>3. CASE P[k] \notin K!Unchecked
      <3>1. K!Carried(k) = {P[i] : i \in 1..(k - 1)}
        BY <1>10, <2>3 DEF K!Carried
      <3>2. \A i \in 1..(k - 1) : i \in 1..n
        BY <1>3, <2>1
      <3> QED BY <1>6, <3>1, <3>2
    <2> QED BY <2>2, <2>3
  <1> QED BY <1>9, <1>10

LEMMA UncheckedIs == K!Unchecked = MacSteps \cup {<<"pins", 0>>}
  <1>1. Steps(K!configureTsPins, {<<"pins", 0>>})
    BY OfOne DEF K!configureTsPins
  <1>2. Steps(K!macInit \o K!configureTsPins, MacSteps \cup {<<"pins", 0>>})
    BY <1>1, MacInitIs, Joined
  <1> DEFINE s == K!macInit \o K!configureTsPins
  <1>3. K!Unchecked = K!Range(s)
    BY DEF K!Unchecked
  <1> HIDE DEF s
  <1>4. DOMAIN s = 1..Len(s)
    BY <1>2 DEF Steps, s
  <1> QED BY <1>2, <1>3, <1>4 DEF K!Range, In, Steps, s

-----------------------------------------------------------------------------
(* Links *)

\* The ports, the events that are modelled of a PHY, and what there is to ask.
HostType == [hook : BOOLEAN, irq : BOOLEAN, listen : BOOLEAN, ports : SUBSET {1, 2}, ok : BOOLEAN]
ChainType == [pc : {"idle", "crsm", "subsys", "int"}, todo : SUBSET {1, 2},
              got : [{1, 2} -> SUBSET {"link"}]]
ThreadType == [pc : {"idle", "transfer", "report"}, next : {1, 2}]
ChangeType == [held : BOOLEAN, mask : SUBSET {1, 2}]

\* A port that is still to ask has not been read.
TodoRight(c) ==
    /\ (c.pc \in {"crsm", "subsys"}) = (c.todo # {})
    /\ c.pc \in {"crsm", "subsys"} => \A p \in c.todo : c.got[p] = {}

LinkTypes ==
    /\ power \in BOOLEAN /\ conf \subseteq K!Settings
    /\ phy \subseteq {1, 2} /\ link \subseteq {1, 2} /\ l2_told \subseteq {1, 2}
    /\ an \in [{1, 2} -> {"none", "fault", "good"}]
    /\ stat \in [{1, 2} -> SUBSET {"link"}]
    /\ host \in HostType /\ chain \in ChainType
    /\ thread \in ThreadType /\ LINK_CHANGE \in ChangeType
    /\ TodoRight(chain)

\* What L2 was told of port p is true, or the change is still to be told: it
\* is latched, has been read in the transfer that runs, or is remembered and
\* not passed over by the report.
Owed(p) ==
    \/ p \in l2_told <=> p \in link
    \/ "link" \in stat[p]
    \/ chain.pc \in {"crsm", "subsys", "int"} /\ "link" \in chain.got[p]
    \/ /\ LINK_CHANGE.held /\ p \in LINK_CHANGE.mask
       /\ thread.pc = "report" => thread.next <= p

LinkInv ==
    /\ LinkTypes
    /\ K!EnabledWorks /\ K!PortsAgree
    /\ thread.pc = "report" => chain.pc = "idle"
    /\ host.ok => Owed(1) /\ Owed(2)

\* No step of macInit fails, whose result MAC_Reset does not look at, and no
\* PHY is told to change its power and not seen to do so; the status of a link
\* can be read; no PHY reports another event with a change of its link; the
\* header of a read comes back as it was sent; and HAL_SpiReadWrite returns
\* when the transfer has ended.
Reliable ==
    /\ MayFail \cap {"imask0", "imask1", "hook", "status", "crc", "poll"} = {}
    /\ ~ReadFails /\ ~Others /\ ~Garbled /\ Blocks

LEMMA LinkInit ==
  ASSUME K!Init
  PROVE  LinkInv
  <1>1. host = [hook |-> FALSE, irq |-> FALSE, listen |-> FALSE, ports |-> {}, ok |-> FALSE]
    BY DEF K!Init
  <1>2. host \in HostType /\ ~host.ok
    BY <1>1 DEF HostType
  <1>3. /\ chain = [pc |-> "idle", todo |-> {}, got |-> [p \in {1, 2} |-> {}]]
        /\ thread = [pc |-> "idle", next |-> 1] /\ LINK_CHANGE = [held |-> FALSE, mask |-> {}]
    BY DEF K!Init, K!AtRest, K!Away, K!Nothing, K!Port
  <1>4. /\ chain \in ChainType /\ chain.pc = "idle" /\ chain.todo = {}
        /\ thread \in ThreadType /\ LINK_CHANGE \in ChangeType
    BY <1>3 DEF ChainType, ThreadType, ChangeType
  <1>5. LinkTypes
    <2>1. stat = [p \in {1, 2} |-> {}] /\ an = [p \in {1, 2} |-> "none"]
      BY DEF K!Init, K!Nothing, K!Port
    <2>2. stat \in [{1, 2} -> SUBSET {"link"}] /\ an \in [{1, 2} -> {"none", "fault", "good"}]
      BY <2>1
    <2>3. power = FALSE /\ conf = {} /\ phy = {} /\ link = {} /\ l2_told = {}
      BY DEF K!Init
    <2>4. TodoRight(chain)
      BY <1>4 DEF TodoRight
    <2> QED BY <1>2, <1>4, <2>2, <2>3, <2>4 DEF LinkTypes
  <1> QED BY <1>2, <1>4, <1>5 DEF LinkInv, K!EnabledWorks, K!PortsAgree, K!Init

LEMMA HostIs ==
  ASSUME NEW h \in HostType
  PROVE  /\ h = [hook |-> h.hook, irq |-> h.irq, listen |-> h.listen, ports |-> h.ports, ok |-> h.ok]
         /\ h.hook \in BOOLEAN /\ h.irq \in BOOLEAN /\ h.listen \in BOOLEAN /\ h.ok \in BOOLEAN
         /\ h.ports \subseteq {1, 2}
  BY DEF HostType

LEMMA ChainIs ==
  ASSUME NEW c \in ChainType
  PROVE  /\ c.pc \in {"idle", "crsm", "subsys", "int"} /\ c.todo \subseteq {1, 2}
         /\ c.got \in [{1, 2} -> SUBSET {"link"}]
  BY DEF ChainType

LEMMA ChangeIs ==
  ASSUME LinkTypes
  PROVE  /\ LINK_CHANGE.held \in BOOLEAN /\ LINK_CHANGE.mask \subseteq {1, 2}
         /\ thread.pc \in {"idle", "transfer", "report"} /\ thread.next \in {1, 2}
  BY DEF LinkTypes, ChangeType, ThreadType

LEMMA EnableKeeps ==
  ASSUME Reliable, LinkInv, K!enable
  PROVE  LinkInv'
  <1>1. PICK k \in {0} \cup {i \in DOMAIN K!Program : K!Program[i][1] \in MayFail} :
          /\ host' = K!After(host, K!Carried(k))
          /\ power' = (<<"up", 2>> \in K!Carried(k))
          /\ conf' = IF power' THEN K!Carried(k) \cap K!Settings ELSE {}
          /\ phy' = IF power' THEN {1, 2} ELSE {}
    BY DEF K!enable, K!Port
  <1> DEFINE C == K!Carried(k)
  <1> HIDE DEF C
  <1>2. <<"up", 2>> \in C => K!Settings \cup {<<"hook", 0>>, <<"resetc", 0>>, <<"up", 1>>} \subseteq C
    BY <1>1, CarriedAll, UncheckedIs DEF Reliable, C
  <1>3. host \in HostType /\ chain \in ChainType
    BY DEF LinkInv, LinkTypes
  <1>4. /\ host' \in HostType /\ host'.ok = (<<"up", 2>> \in C)
        /\ host'.hook = (host.hook \/ <<"hook", 0>> \in C)
        /\ host'.irq = (<<"sync", 0>> \in C) /\ host'.listen = (<<"link", 2>> \in C)
        /\ host'.ports = IF <<"resetc", 0>> \in C THEN {p \in {1, 2} : <<"up", p>> \in C} ELSE host.ports
    BY <1>1, <1>3, HostIs DEF K!After, K!Port, HostType, C
  <1>5. link' = {} /\ l2_told' = {} /\ stat' = [p \in {1, 2} |-> {}] /\ chain' = chain
        /\ thread' = thread /\ LINK_CHANGE' = LINK_CHANGE
        /\ an' = [p \in {1, 2} |-> "none"]
    BY DEF K!enable, K!Nothing, K!Port
  <1>6. power' \in BOOLEAN /\ conf' \subseteq K!Settings /\ phy' \subseteq {1, 2}
    BY <1>1
  <1>7. LinkTypes'
    BY <1>3, <1>4, <1>5, <1>6 DEF LinkInv, LinkTypes
  <1>8. <<"sync", 0>> \in K!Settings /\ <<"link", 2>> \in K!Settings
    BY DEF K!Settings
  <1>9. CASE <<"up", 2>> \in C
    <2>1. power' = TRUE /\ conf' = K!Settings /\ phy' = {1, 2}
      BY <1>1, <1>2, <1>9 DEF C
    <2>2. host'.hook /\ host'.irq /\ host'.listen /\ host'.ports = {1, 2}
      BY <1>2, <1>4, <1>8, <1>9
    <2> QED BY <1>4, <1>5, <1>7, <2>1, <2>2 DEF LinkInv, K!EnabledWorks, K!PortsAgree, Owed
  <1>10. CASE <<"up", 2>> \notin C
    <2>1. ~power' /\ ~host'.ok
      BY <1>1, <1>4, <1>10 DEF C
    <2> QED BY <1>5, <1>7, <2>1 DEF LinkInv, K!EnabledWorks, K!PortsAgree
  <1> QED BY <1>9, <1>10

\* What is latched when links go.
LEMMA Dropped ==
  ASSUME LinkTypes, NEW S \in SUBSET {1, 2}, K!Drop(S)
  PROVE  /\ link' = link \ S /\ link' \subseteq {1, 2}
         /\ stat' \in [{1, 2} -> SUBSET {"link"}] /\ an' \in [{1, 2} -> {"none", "fault", "good"}]
         /\ \A p \in {1, 2} : "link" \in stat[p] \/ p \in S \cap link => "link" \in stat'[p]
  <1>1. /\ link' = link \ S
        /\ stat' = [q \in {1, 2} |-> IF q \in S \cap link THEN stat[q] \cup {"link"} ELSE stat[q]]
        /\ an' = [q \in {1, 2} |-> IF q \in S THEN "none" ELSE an[q]]
    BY DEF K!Drop, K!Port
  <1>2. \A q \in {1, 2} : stat[q] \in SUBSET {"link"} /\ an[q] \in {"none", "fault", "good"}
    BY DEF LinkTypes
  <1>3. stat' \in [{1, 2} -> SUBSET {"link"}]
    BY <1>1, <1>2
  <1>4. an' \in [{1, 2} -> {"none", "fault", "good"}]
    BY <1>1, <1>2
  <1> QED BY <1>1, <1>3, <1>4 DEF LinkTypes

LEMMA OwedDropped ==
  ASSUME LinkTypes, NEW S \in SUBSET {1, 2}, K!Drop(S), chain' = chain, l2_told' = l2_told,
         thread' = thread, LINK_CHANGE' = LINK_CHANGE, NEW p \in {1, 2}, Owed(p)
  PROVE  Owed(p)'
  BY Dropped DEF Owed

LEMMA SwitchKeeps ==
  ASSUME Reliable, LinkInv, NEW p \in {1, 2}, NEW b \in BOOLEAN, K!SwitchPort(p, b)
  PROVE  LinkInv'
  <1>1. PICK r \in {"ok"} \cup (MayFail \cap {"write", "poll"}) :
           /\ phy' = IF r = "write" THEN phy ELSE IF b THEN phy \cup {p} ELSE phy \ {p}
           /\ host' = IF r = "ok" THEN [host EXCEPT !.ports = K!SetPort(@, p, b)] ELSE host
    BY DEF K!SwitchPort
  <1>2. r \in {"ok", "write"}
    BY <1>1 DEF Reliable
  <1>3. host \in HostType /\ phy \subseteq {1, 2}
    BY DEF LinkInv, LinkTypes
  <1>4. /\ host' \in HostType /\ host'.ok = host.ok /\ host'.hook = host.hook
        /\ host'.irq = host.irq /\ host'.listen = host.listen
        /\ host'.ports = IF r = "ok" THEN K!SetPort(host.ports, p, b) ELSE host.ports
    <2>1. K!SetPort(host.ports, p, b) \subseteq {1, 2}
      BY <1>3, HostIs DEF K!SetPort
    <2> QED BY <1>1, <1>3, <2>1 DEF HostType
  <1>5. phy' \subseteq {1, 2} /\ (host.ports = phy => host'.ports = phy')
    BY <1>1, <1>2, <1>3, <1>4 DEF K!SetPort
  <1>6. power' = power /\ conf' = conf /\ chain' = chain /\ l2_told' = l2_told
        /\ thread' = thread /\ LINK_CHANGE' = LINK_CHANGE
    BY DEF K!SwitchPort
  <1> DEFINE S == IF p \in phy' THEN {} ELSE K!Served(p)
  <1>7. S \in SUBSET {1, 2} /\ K!Drop(S)
    BY DEF K!SwitchPort, K!Served, K!Port
  <1> HIDE DEF S
  <1>8. LinkTypes'
    BY <1>4, <1>5, <1>6, <1>7, Dropped DEF LinkInv, LinkTypes
  <1>9. K!EnabledWorks' /\ K!PortsAgree'
    BY <1>4, <1>5, <1>6 DEF LinkInv, K!EnabledWorks, K!PortsAgree
  <1>10. host'.ok => Owed(1)' /\ Owed(2)'
    BY <1>4, <1>6, <1>7, OwedDropped DEF LinkInv
  <1> QED BY <1>6, <1>8, <1>9, <1>10 DEF LinkInv

LEMMA DisableKeeps ==
  ASSUME LinkInv, K!disable
  PROVE  LinkInv'
  <1>1. PICK done \in {{1, 2}, {1}, {}} :
         /\ host' = [host EXCEPT !.ports = @ \ done, !.ok = @ /\ done # {1, 2}]
         /\ power' = (done # {1, 2})
         /\ phy' = phy \ done
         /\ conf' = IF power' THEN conf ELSE {}
         /\ IF ~power' THEN link' = {} /\ stat' = [p \in {1, 2} |-> {}] /\ an' = [p \in {1, 2} |-> "none"]
            ELSE K!Drop(IF done = {} THEN {} ELSE {1, 2})
    BY DEF K!disable, K!Port, K!Nothing
  <1>2. host \in HostType /\ phy \subseteq {1, 2} /\ power
    BY DEF LinkInv, LinkTypes, K!disable
  <1>3. /\ host' \in HostType /\ host'.ok = (host.ok /\ done # {1, 2}) /\ host'.hook = host.hook
        /\ host'.irq = host.irq /\ host'.listen = host.listen
        /\ host'.ports = host.ports \ done
    BY <1>1, <1>2, HostIs DEF HostType
  <1>4. chain' = chain /\ l2_told' = l2_told /\ thread' = thread /\ LINK_CHANGE' = LINK_CHANGE
    BY DEF K!disable
  <1>5. CASE done = {1, 2}
    <2>1. ~power' /\ conf' = {} /\ phy' \subseteq {1, 2} /\ ~host'.ok /\ power' \in BOOLEAN
      BY <1>1, <1>2, <1>3, <1>5
    <2>2. link' = {} /\ stat' = [p \in {1, 2} |-> {}] /\ an' = [p \in {1, 2} |-> "none"]
      BY <1>1, <2>1
    <2>3. LinkTypes'
      BY <1>3, <1>4, <2>1, <2>2 DEF LinkInv, LinkTypes
    <2> QED BY <1>4, <2>1, <2>3 DEF LinkInv, K!EnabledWorks, K!PortsAgree
  <1>6. CASE done # {1, 2}
    <2> DEFINE S == IF done = {} THEN {} ELSE {1, 2}
    <2>1. power' = TRUE /\ conf' = conf /\ phy' \subseteq {1, 2} /\ S \in SUBSET {1, 2} /\ K!Drop(S)
          /\ host'.ok = host.ok
      BY <1>1, <1>2, <1>3, <1>6, HostIs
    <2> HIDE DEF S
    <2>2. LinkTypes'
      BY <1>3, <1>4, <2>1, Dropped DEF LinkInv, LinkTypes
    <2>3. K!EnabledWorks' /\ K!PortsAgree'
      BY <1>1, <1>2, <1>3, <2>1 DEF LinkInv, K!EnabledWorks, K!PortsAgree
    <2>4. host'.ok => Owed(1)' /\ Owed(2)'
      BY <1>4, <2>1, OwedDropped DEF LinkInv
    <2> QED BY <1>4, <2>2, <2>3, <2>4 DEF LinkInv
  <1> QED BY <1>5, <1>6

LEMMA FlipKeeps ==
  ASSUME Reliable, LinkInv, NEW p \in {1, 2}, K!LinkFlip(p)
  PROVE  LinkInv'
  <1>1. stat' = [stat EXCEPT ![p] = @ \cup {"link"} \cup {}]
    BY DEF K!LinkFlip, Reliable
  <1>2. stat \in [{1, 2} -> SUBSET {"link"}] /\ an \in [{1, 2} -> {"none", "fault", "good"}]
        /\ link \subseteq {1, 2}
    BY DEF LinkInv, LinkTypes
  <1>3. stat' \in [{1, 2} -> SUBSET {"link"}] /\ "link" \in stat'[p]
        /\ \A q \in {1, 2} \ {p} : stat'[q] = stat[q]
    BY <1>1, <1>2
  <1>4. link' \subseteq {1, 2} /\ \A q \in {1, 2} \ {p} : q \in link' <=> q \in link
    BY <1>2 DEF K!LinkFlip
  <1>5. an' \in [{1, 2} -> {"none", "fault", "good"}]
    <2>1. an' = [an EXCEPT ![p] = "none"] \/ an' = [an EXCEPT ![p] = "good"]
      BY DEF K!LinkFlip
    <2> QED BY <1>2, <2>1
  <1>6. /\ power' = power /\ conf' = conf /\ chain' = chain /\ l2_told' = l2_told /\ host' = host
        /\ phy' = phy /\ thread' = thread /\ LINK_CHANGE' = LINK_CHANGE
    BY DEF K!LinkFlip
  <1>7. LinkTypes'
    BY <1>3, <1>4, <1>5, <1>6 DEF LinkInv, LinkTypes
  <1>8. ASSUME NEW q \in {1, 2}, Owed(q)
        PROVE  Owed(q)'
    <2>1. CASE q = p
      BY <1>3, <2>1 DEF Owed
    <2>2. CASE q # p
      BY <1>3, <1>4, <1>6, <1>8, <2>2 DEF Owed
    <2> QED BY <2>1, <2>2
  <1> QED BY <1>6, <1>7, <1>8 DEF LinkInv, K!EnabledWorks, K!PortsAgree

\* Steps that change only the outcome of a negotiation.
LEMMA NegotiationKeeps ==
  ASSUME LinkInv, NEW p \in {1, 2}, K!Fault(p) \/ K!renegotiate(p)
  PROVE  LinkInv'
  <1>1. an \in [{1, 2} -> {"none", "fault", "good"}]
    BY DEF LinkInv, LinkTypes
  <1>2. an' = [an EXCEPT ![p] = "fault"] \/ an' = [an EXCEPT ![p] = "none"]
    BY DEF K!Fault, K!renegotiate
  <1>3. an' \in [{1, 2} -> {"none", "fault", "good"}]
    BY <1>1, <1>2
  <1>4. /\ power' = power /\ conf' = conf /\ chain' = chain /\ l2_told' = l2_told /\ host' = host
        /\ phy' = phy /\ link' = link /\ stat' = stat
        /\ thread' = thread /\ LINK_CHANGE' = LINK_CHANGE
    BY DEF K!Fault, K!renegotiate
  <1>5. LinkTypes'
    BY <1>3, <1>4 DEF LinkInv, LinkTypes
  <1>6. \A q \in {1, 2} : Owed(q) => Owed(q)'
    BY <1>4 DEF Owed
  <1> QED BY <1>4, <1>5, <1>6 DEF LinkInv, K!EnabledWorks, K!PortsAgree

\* A step of the interrupt's handling: what it leaves alone, and what is left
\* to show.
LEMMA HandlingKeeps ==
  ASSUME LinkInv, power' = power, conf' = conf, phy' = phy, link' = link, an' = an, host' = host,
         l2_told' \subseteq {1, 2}, stat' \in [{1, 2} -> SUBSET {"link"}], chain' \in ChainType,
         thread' \in ThreadType, LINK_CHANGE' \in ChangeType, TodoRight(chain'),
         thread'.pc = "report" => chain'.pc = "idle",
         host.ok => \A q \in {1, 2} : Owed(q) => Owed(q)'
  PROVE  LinkInv'
  <1>1. LinkTypes'
    BY DEF LinkInv, LinkTypes
  <1> QED BY <1>1 DEF LinkInv, K!EnabledWorks, K!PortsAgree

\* A transfer begins: of the handler, or of a frame that is sent.
LEMMA StartsKeeps ==
  ASSUME LinkInv, chain.pc = "idle", K!Starts,
         power' = power, conf' = conf, phy' = phy, link' = link, an' = an, host' = host,
         l2_told' = l2_told, stat' = stat, LINK_CHANGE' = LINK_CHANGE,
         thread.pc = "idle", thread' \in ThreadType, thread'.pc # "report"
  PROVE  LinkInv'
  <1> DEFINE todo == {p \in {1, 2} : K!PhyInt(p)}
             none == [p \in {1, 2} |-> {}]
  <1>1. /\ chain \in ChainType /\ TodoRight(chain) /\ LINK_CHANGE \in ChangeType
        /\ l2_told \subseteq {1, 2} /\ stat \in [{1, 2} -> SUBSET {"link"}]
    BY DEF LinkInv, LinkTypes
  <1>2. \A q \in {1, 2} : Owed(q) => Owed(q)'
    BY DEF Owed
  <1>3. CASE K!Pin
    <2>1. chain' = [pc |-> "crsm", todo |-> todo, got |-> none]
      BY <1>3 DEF K!Starts, K!AtRest, K!Port, K!Nothing
    <2>2. todo # {} /\ todo \subseteq {1, 2}
      BY <1>3 DEF K!Pin, K!Port
    <2>3. none \in [{1, 2} -> SUBSET {"link"}] /\ \A p \in {1, 2} : none[p] = {}
      OBVIOUS
    <2> HIDE DEF todo, none
    <2>4. chain' \in ChainType /\ chain'.pc = "crsm" /\ chain'.todo = todo /\ chain'.got = none
      BY <2>1, <2>2, <2>3 DEF ChainType
    <2>5. TodoRight(chain')
      BY <2>2, <2>3, <2>4 DEF TodoRight
    <2> QED BY <1>1, <1>2, <2>4, <2>5, HandlingKeeps
  <1>4. CASE ~K!Pin
    <2>1. chain' = chain
      BY <1>4 DEF K!Starts
    <2> QED BY <1>1, <1>2, <2>1, HandlingKeeps
  <1> QED BY <1>3, <1>4

LEMMA InterruptKeeps ==
  ASSUME LinkInv, NEW frame \in BOOLEAN, K!handle_interrupt(frame)
  PROVE  LinkInv'
  <1>1. /\ chain.pc = "idle" /\ thread.pc = "idle" /\ K!Starts
        /\ thread' = [thread EXCEPT !.pc = "transfer"]
        /\ power' = power /\ conf' = conf /\ phy' = phy /\ link' = link /\ an' = an /\ host' = host
        /\ l2_told' = l2_told /\ stat' = stat /\ LINK_CHANGE' = LINK_CHANGE
    BY DEF K!handle_interrupt, K!Ready, K!chipvars
  <1>2. thread' \in ThreadType /\ thread'.pc = "transfer"
    BY <1>1 DEF LinkInv, LinkTypes, ThreadType
  <1> QED BY <1>1, <1>2, StartsKeeps

LEMMA SendKeeps ==
  ASSUME LinkInv, K!SendFrame
  PROVE  LinkInv'
  <1>1. /\ chain.pc = "idle" /\ thread.pc = "idle" /\ K!Starts /\ thread' = thread
        /\ power' = power /\ conf' = conf /\ phy' = phy /\ link' = link /\ an' = an /\ host' = host
        /\ l2_told' = l2_told /\ stat' = stat /\ LINK_CHANGE' = LINK_CHANGE
    BY DEF K!SendFrame, K!Ready, K!chipvars
  <1>2. thread' \in ThreadType /\ thread'.pc # "report"
    BY <1>1 DEF LinkInv, LinkTypes
  <1> QED BY <1>1, <1>2, StartsKeeps

LEMMA AskedIs ==
  ASSUME chain.todo \subseteq {1, 2}, chain.todo # {}
  PROVE  K!Asked \in chain.todo
  <1>1. \E p \in chain.todo : \A q \in chain.todo : p <= q
    <2>1. CASE 1 \in chain.todo
      BY <2>1
    <2>2. CASE 1 \notin chain.todo
      BY <2>2
    <2> QED BY <2>1, <2>2
  <1> QED BY <1>1 DEF K!Asked

LEMMA CrsmKeeps ==
  ASSUME Reliable, LinkInv, K!ReadCrsm
  PROVE  LinkInv'
  <1> DEFINE a == K!Asked
  <1>1. /\ chain \in ChainType /\ chain.pc = "crsm" /\ chain.todo # {} /\ chain.todo \subseteq {1, 2}
        /\ stat \in [{1, 2} -> SUBSET {"link"}] /\ chain.got \in [{1, 2} -> SUBSET {"link"}]
        /\ l2_told \subseteq {1, 2} /\ \A p \in chain.todo : chain.got[p] = {}
        /\ thread \in ThreadType /\ LINK_CHANGE \in ChangeType /\ thread.pc # "report"
    BY ChainIs DEF LinkInv, LinkTypes, TodoRight, K!ReadCrsm
  <1>2. a \in chain.todo /\ a \in {1, 2}
    BY <1>1, AskedIs
  <1>3. chain' = [chain EXCEPT !.pc = "subsys", !.got[a] = stat[a] \cap {"other"}]
        /\ stat' = [stat EXCEPT ![a] = @ \ {"other"}]
    BY DEF K!ReadCrsm, K!Echo, K!Cleared, Reliable
  <1> HIDE DEF a
  <1>4. stat[a] \cap {"other"} = {} /\ stat[a] \ {"other"} = stat[a] /\ chain.got[a] = {}
    BY <1>1, <1>2
  <1>5. stat' = stat
    BY <1>1, <1>3, <1>4
  <1>6. chain' = [chain EXCEPT !.pc = "subsys", !.got = [chain.got EXCEPT ![a] = {}]]
    BY <1>1, <1>3, <1>4 DEF ChainType
  <1>7. [chain.got EXCEPT ![a] = {}] = chain.got
    BY <1>1, <1>4
  <1>8. /\ chain' \in ChainType /\ chain'.pc = "subsys" /\ chain'.todo = chain.todo
        /\ chain'.got = chain.got
    BY <1>1, <1>6, <1>7 DEF ChainType
  <1>9. /\ power' = power /\ conf' = conf /\ phy' = phy /\ link' = link /\ an' = an /\ host' = host
        /\ l2_told' = l2_told /\ thread' = thread /\ LINK_CHANGE' = LINK_CHANGE
    BY DEF K!ReadCrsm
  <1>10. TodoRight(chain')
    BY <1>1, <1>8 DEF TodoRight
  <1>11. \A q \in {1, 2} : Owed(q) => Owed(q)'
    BY <1>1, <1>5, <1>8, <1>9 DEF Owed
  <1> QED BY <1>1, <1>5, <1>8, <1>9, <1>10, <1>11, HandlingKeeps

LEMMA SubsysKeeps ==
  ASSUME Reliable, LinkInv, K!ReadSubsys
  PROVE  LinkInv'
  <1> DEFINE a == K!Asked
             rest == chain.todo \ {a}
             seen == IF host.listen THEN stat[a] \cap {"link"} ELSE {}
             got2 == [chain.got EXCEPT ![a] = @ \cup seen]
  <1>1. /\ chain \in ChainType /\ chain.pc = "subsys" /\ chain.todo # {} /\ chain.todo \subseteq {1, 2}
        /\ stat \in [{1, 2} -> SUBSET {"link"}] /\ chain.got \in [{1, 2} -> SUBSET {"link"}]
        /\ l2_told \subseteq {1, 2} /\ \A p \in chain.todo : chain.got[p] = {}
        /\ thread \in ThreadType /\ LINK_CHANGE \in ChangeType /\ thread.pc # "report"
    BY ChainIs DEF LinkInv, LinkTypes, TodoRight, K!ReadSubsys
  <1>2. a \in chain.todo /\ a \in {1, 2}
    BY <1>1, AskedIs
  <1>3. chain' = [chain EXCEPT !.pc = K!SubsysNext(rest), !.todo = rest, !.got[a] = @ \cup seen]
        /\ stat' = [stat EXCEPT ![a] = @ \ {"link"}]
    BY DEF K!ReadSubsys, K!Echo, K!Cleared, Reliable
  <1>4. got2 \in [{1, 2} -> SUBSET {"link"}] /\ \A q \in {1, 2} \ {a} : got2[q] = chain.got[q]
    BY <1>1, <1>2
  <1>5. host.listen /\ "link" \in stat[a] => "link" \in got2[a]
    BY <1>1, <1>2
  <1>6. stat' \in [{1, 2} -> SUBSET {"link"}] /\ \A q \in {1, 2} \ {a} : stat'[q] = stat[q]
    BY <1>1, <1>2, <1>3
  <1>7. rest \subseteq {1, 2} /\ K!SubsysNext(rest) = IF rest = {} THEN "int" ELSE "crsm"
    BY <1>1 DEF K!SubsysNext
  <1>8. chain' = [chain EXCEPT !.pc = K!SubsysNext(rest), !.todo = rest, !.got = got2]
    <2> HIDE DEF rest, a, seen
    <2> QED BY <1>1, <1>3 DEF ChainType
  <1> HIDE DEF rest, got2, a
  <1>9. /\ chain' \in ChainType /\ chain'.pc = K!SubsysNext(rest) /\ chain'.todo = rest
        /\ chain'.got = got2
    BY <1>1, <1>4, <1>7, <1>8 DEF ChainType
  <1>10. /\ power' = power /\ conf' = conf /\ phy' = phy /\ link' = link /\ an' = an /\ host' = host
         /\ l2_told' = l2_told /\ thread' = thread /\ LINK_CHANGE' = LINK_CHANGE
    BY DEF K!ReadSubsys
  <1>11. TodoRight(chain')
    <2>1. \A q \in rest : q \in chain.todo /\ q \in {1, 2} \ {a}
      BY <1>1 DEF rest
    <2>2. \A q \in rest : got2[q] = {}
      BY <1>1, <1>4, <2>1
    <2>3. CASE rest = {}
      BY <1>7, <1>9, <2>3 DEF TodoRight
    <2>4. CASE rest # {}
      BY <1>7, <1>9, <2>2, <2>4 DEF TodoRight
    <2> QED BY <2>3, <2>4
  <1>12. ASSUME host.ok, NEW q \in {1, 2}, Owed(q)
         PROVE  Owed(q)'
    <2>1. host.listen
      BY <1>12 DEF LinkInv, K!EnabledWorks
    <2>2. chain'.pc \in {"crsm", "int"}
      BY <1>7, <1>9
    <2>3. CASE q = a
      <3>1. chain.got[a] = {}
        BY <1>1, <1>2
      <3> QED BY <1>1, <1>5, <1>9, <1>10, <1>12, <2>1, <2>2, <2>3, <3>1 DEF Owed
    <2>4. CASE q # a
      BY <1>1, <1>4, <1>6, <1>9, <1>10, <1>12, <2>2, <2>4 DEF Owed
    <2> QED BY <2>3, <2>4
  <1> QED BY <1>1, <1>6, <1>9, <1>10, <1>11, <1>12, HandlingKeeps

\* What was read is remembered; nobody reports while the transfer runs.
LEMMA IntKeeps ==
  ASSUME LinkInv, K!IntHandle
  PROVE  LinkInv'
  <1> DEFINE new == {p \in {1, 2} : chain.got[p] = {"link"}}
             mask == LINK_CHANGE.mask \cup new
             held == LINK_CHANGE.held \/ new # {}
             none == [p \in {1, 2} |-> {}]
  <1>1. /\ chain \in ChainType /\ chain.pc = "int" /\ LINK_CHANGE.mask \subseteq {1, 2}
        /\ stat \in [{1, 2} -> SUBSET {"link"}] /\ chain.got \in [{1, 2} -> SUBSET {"link"}]
        /\ l2_told \subseteq {1, 2} /\ thread \in ThreadType /\ thread.pc # "report"
        /\ LINK_CHANGE.held \in BOOLEAN
    BY ChainIs, ChangeIs DEF LinkInv, LinkTypes, K!IntHandle
  <1>2. /\ LINK_CHANGE' = [held |-> held, mask |-> mask]
        /\ chain' = [pc |-> "idle", todo |-> {}, got |-> none]
    BY DEF K!IntHandle, K!Changed, K!Port, K!Nothing, K!AtRest
  <1>3. mask \subseteq {1, 2} /\ held \in BOOLEAN /\ none \in [{1, 2} -> SUBSET {"link"}]
    BY <1>1
  <1>4. \A q \in {1, 2} : "link" \in chain.got[q] => q \in mask /\ held
    BY <1>1
  <1>5. LINK_CHANGE.mask \subseteq mask /\ (LINK_CHANGE.held => held)
    OBVIOUS
  <1> HIDE DEF new, mask, none, held
  <1>6. /\ chain' \in ChainType /\ chain'.pc = "idle" /\ chain'.todo = {}
        /\ LINK_CHANGE' \in ChangeType /\ LINK_CHANGE'.held = held /\ LINK_CHANGE'.mask = mask
    BY <1>2, <1>3 DEF ChainType, ChangeType
  <1>7. /\ power' = power /\ conf' = conf /\ phy' = phy /\ link' = link /\ an' = an /\ host' = host
        /\ l2_told' = l2_told /\ stat' = stat /\ thread' = thread
    BY DEF K!IntHandle, K!chipvars
  <1>8. TodoRight(chain')
    BY <1>6 DEF TodoRight
  <1>9. \A q \in {1, 2} : Owed(q) => Owed(q)'
    BY <1>1, <1>4, <1>5, <1>6, <1>7 DEF Owed
  <1> QED BY <1>1, <1>6, <1>7, <1>8, <1>9, HandlingKeeps

LEMMA ReturnsKeeps ==
  ASSUME Reliable, LinkInv, K!Returns
  PROVE  LinkInv'
  <1>1. /\ chain \in ChainType /\ TodoRight(chain) /\ LINK_CHANGE \in ChangeType
        /\ l2_told \subseteq {1, 2} /\ stat \in [{1, 2} -> SUBSET {"link"}]
    BY DEF LinkInv, LinkTypes
  <1>2. /\ power' = power /\ conf' = conf /\ phy' = phy /\ link' = link /\ an' = an /\ host' = host
        /\ l2_told' = l2_told /\ stat' = stat /\ LINK_CHANGE' = LINK_CHANGE /\ chain' = chain
        /\ thread.pc = "transfer" /\ chain.pc = "idle"
    BY DEF K!Returns, K!chipvars, Reliable
  <1>3. thread' \in ThreadType /\ thread'.next = 1
    BY DEF K!Returns, K!Away, ThreadType
  <1>4. \A q \in {1, 2} : Owed(q) => Owed(q)'
    BY <1>2, <1>3 DEF Owed
  <1> QED BY <1>1, <1>2, <1>3, <1>4, HandlingKeeps

LEMMA ReportKeeps ==
  ASSUME Reliable, LinkInv, K!Report
  PROVE  LinkInv'
  <1> DEFINE a == thread.next
  <1>1. /\ chain \in ChainType /\ TodoRight(chain) /\ LINK_CHANGE \in ChangeType
        /\ thread \in ThreadType /\ thread.pc = "report" /\ a \in {1, 2} /\ chain.pc = "idle"
        /\ stat \in [{1, 2} -> SUBSET {"link"}] /\ l2_told \subseteq {1, 2}
    BY ChangeIs DEF LinkInv, LinkTypes, K!Report
  <1>2. l2_told' = IF a \notin LINK_CHANGE.mask THEN l2_told
                   ELSE IF a \in link THEN l2_told \cup {a} ELSE l2_told \ {a}
    BY DEF K!Report, K!Told, Reliable
  <1>3. /\ thread' = IF a = 1 THEN [thread EXCEPT !.next = 2] ELSE [pc |-> "idle", next |-> 1]
        /\ LINK_CHANGE' = IF a = 1 THEN LINK_CHANGE ELSE [LINK_CHANGE EXCEPT !.held = FALSE]
    BY DEF K!Report, K!Away
  <1>4. /\ power' = power /\ conf' = conf /\ phy' = phy /\ link' = link /\ an' = an /\ host' = host
        /\ stat' = stat /\ chain' = chain
    BY DEF K!Report, K!chipvars
  <1>5. /\ l2_told' \subseteq {1, 2} /\ (a \in LINK_CHANGE.mask => (a \in l2_told' <=> a \in link))
        /\ \A q \in {1, 2} : q # a \/ a \notin LINK_CHANGE.mask => (q \in l2_told' <=> q \in l2_told)
    BY <1>1, <1>2
  <1> HIDE DEF a
  <1>6. CASE a = 1
    <2>1. /\ thread' \in ThreadType /\ thread'.pc = "report" /\ thread'.next = 2
          /\ LINK_CHANGE' = LINK_CHANGE
      BY <1>1, <1>3, <1>6 DEF ThreadType
    <2>2. \A q \in {1, 2} : Owed(q) => Owed(q)'
      <3>1. Owed(1) => Owed(1)'
        BY <1>1, <1>4, <1>5, <1>6, <2>1 DEF Owed
      <3>2. Owed(2) => Owed(2)'
        BY <1>1, <1>4, <1>5, <1>6, <2>1 DEF Owed
      <3> QED BY <3>1, <3>2
    <2> QED BY <1>1, <1>4, <1>5, <2>1, <2>2, HandlingKeeps
  <1>7. CASE a = 2
    <2>1. thread' \in ThreadType /\ thread'.pc = "idle"
      BY <1>3, <1>7 DEF ThreadType
    <2>3. LINK_CHANGE' \in ChangeType
      BY <1>1, <1>3, <1>7 DEF ChangeType
    <2>2. \A q \in {1, 2} : Owed(q) => Owed(q)'
      <3>1. Owed(1) => Owed(1)'
        BY <1>1, <1>4, <1>5, <1>7 DEF Owed, a
      <3>2. Owed(2) => Owed(2)'
        BY <1>1, <1>4, <1>5, <1>7 DEF Owed, a
      <3> QED BY <3>1, <3>2
    <2> QED BY <1>1, <1>4, <1>5, <2>1, <2>2, <2>3, HandlingKeeps
  <1> QED BY <1>1, <1>6, <1>7

LEMMA LinkStep ==
  ASSUME Reliable, LinkInv, [K!Next]_K!vars
  PROVE  LinkInv'
  <1>1. CASE UNCHANGED K!vars
    <2>1. /\ power' = power /\ conf' = conf /\ phy' = phy /\ link' = link /\ an' = an
          /\ host' = host /\ chain' = chain /\ l2_told' = l2_told /\ stat' = stat
          /\ thread' = thread /\ LINK_CHANGE' = LINK_CHANGE
      BY <1>1 DEF K!vars, K!chipvars
    <2>2. \A q \in {1, 2} : Owed(q) => Owed(q)'
      BY <2>1 DEF Owed
    <2>3. LinkTypes'
      BY <2>1 DEF LinkInv, LinkTypes
    <2> QED BY <2>1, <2>2, <2>3 DEF LinkInv, K!EnabledWorks, K!PortsAgree
  <1>2. CASE K!enable
    BY <1>2, EnableKeeps
  <1>3. CASE K!disable
    BY <1>3, DisableKeeps
  <1>4. ASSUME NEW p \in {1, 2}, K!SwitchPort(p, TRUE) \/ K!SwitchPort(p, FALSE)
        PROVE  LinkInv'
    BY <1>4, SwitchKeeps
  <1>5. ASSUME NEW p \in {1, 2}, K!LinkFlip(p)
        PROVE  LinkInv'
    BY <1>5, FlipKeeps
  <1>6. ASSUME NEW p \in {1, 2}, K!Fault(p) \/ K!renegotiate(p)
        PROVE  LinkInv'
    BY <1>6, NegotiationKeeps
  <1>7. CASE K!Handling \/ K!handle_interrupt(TRUE) \/ K!SendFrame
    BY <1>7, InterruptKeeps, ReturnsKeeps, ReportKeeps, SendKeeps DEF K!Handling
  <1>8. CASE K!Chain
    BY <1>8, CrsmKeeps, SubsysKeeps, IntKeeps DEF K!Chain
  <1> QED BY <1>1, <1>2, <1>3, <1>4, <1>5, <1>6, <1>7, <1>8 DEF K!Next, K!Port

LEMMA LinkImplies ==
  ASSUME LinkInv
  PROVE  LinksAreTold
  <1>1. K!TypeOK
    <2>1. \A S \in SUBSET {"link"} : S \in SUBSET {"link", "other"}
      OBVIOUS
    <2>2. stat \in [{1, 2} -> SUBSET {"link", "other"}]
      BY <2>1 DEF LinkInv, LinkTypes
    <2>3. chain.got \in [{1, 2} -> SUBSET {"link", "other"}]
      BY <2>1, ChainIs DEF LinkInv, LinkTypes
    <2>4. /\ chain.pc \in {"idle", "crsm", "subsys", "int"} /\ chain.todo \subseteq {1, 2}
          /\ LINK_CHANGE.held \in BOOLEAN /\ LINK_CHANGE.mask \subseteq {1, 2}
          /\ thread.pc \in {"idle", "transfer", "report"} /\ thread.next \in {1, 2}
      BY ChainIs, ChangeIs DEF LinkInv, LinkTypes
    <2>5. /\ host.hook \in BOOLEAN /\ host.irq \in BOOLEAN /\ host.listen \in BOOLEAN
          /\ host.ok \in BOOLEAN /\ host.ports \subseteq {1, 2}
      BY HostIs DEF LinkInv, LinkTypes
    <2> QED BY <2>2, <2>3, <2>4, <2>5 DEF K!TypeOK, LinkInv, LinkTypes, TodoRight, K!Port
  <1>2. K!ToldAtRest
    <2>1. SUFFICES ASSUME host.ok, chain.pc = "idle", ~K!Pin, NEW p \in {1, 2}
                   PROVE  K!Remembered(p) \/ (p \in l2_told <=> p \in link)
      BY DEF K!ToldAtRest, K!Ready, K!Port
    <2>2. power /\ conf = K!Settings
      BY <2>1 DEF LinkInv, K!EnabledWorks
    <2>3. <<"sync", 0>> \in conf /\ <<"unmask", p>> \in conf /\ <<"link", p>> \in conf
      BY <2>2 DEF K!Settings
    <2>4. "link" \notin stat[p]
      BY <2>1, <2>2, <2>3 DEF K!Pin, K!PhyInt, K!Shown, K!Port
    <2>5. Owed(p)
      BY <2>1 DEF LinkInv
    <2> QED BY <2>1, <2>4, <2>5 DEF Owed, K!Remembered
  <1> QED BY <1>1, <1>2 DEF LinksAreTold, LinkInv

\* The bring-up of the ADIN2111 and the way of a link change (bm_adin2111.c,
\* adin2111.c, adi_spi_oa.c), for any number of calls and of changes, any
\* other step of the bring-up and of a port's powering failing:
\* adin2111_netdevice_enable says BmOK only of a device of which everything
\* works, when there is nothing to handle L2 has been told what each link is
\* or the change, read as a frame was sent, is remembered for the next
\* interrupt to tell, and the driver knows which ports are powered, whichever
\* thread switches them and when.  Reliable says what the code takes for
\* granted.
THEOREM LinksTold ==
  ASSUME K!AdinLinkAssumption, Reliable
  PROVE  K!Spec => []LinksAreTold
  <1>1. K!Init => LinkInv
    BY LinkInit
  <1>2. LinkInv /\ [K!Next]_K!vars => LinkInv'
    BY LinkStep
  <1>3. LinkInv => LinksAreTold
    BY LinkImplies
  <1> QED BY <1>1, <1>2, <1>3, PTL DEF K!Spec

=============================================================================
