--------------------------- MODULE PosixSemaphore ---------------------------
(***************************************************************************)
(* The BmSemaphore of the POSIX port (common/bm_posix.c) as the locks of    *)
(* this code use it: created by bm_mutex_create, taken with a timeout, given *)
(* back by the task that took it.                                           *)
(*                                                                          *)
(* As in PosixQueue, a step lasts from taking the mutex inside the          *)
(* semaphore to giving it back or waiting.                                  *)
(***************************************************************************)
EXTENDS Naturals, FiniteSets

CONSTANTS
    Task,           \* the tasks that take and give the semaphore
    Consumes        \* a wait whose time is over may have used up a signal
                    \* (POSIX allows it)

PosixSemaphoreAssumption == IsFiniteSet(Task) /\ Consumes \in BOOLEAN

VARIABLES
    free,           \* PosixSemaphore.count
    task            \* where each task is

vars == <<free, task>>

TypeOK ==
    /\ free \in 0..1
    /\ task \in [Task -> {"out", "asleep", "woken", "in"}]

\* bm_mutex_create
Init == free = 1 /\ task = [t \in Task |-> "out"]

\* The loop of bm_semaphore_take, at the call and after each wait.
Take(t) ==
    /\ task[t] \in {"out", "woken"}
    /\ \/ free = 0 /\ task' = [task EXCEPT ![t] = "asleep"] /\ UNCHANGED free
       \/ free # 0 /\ free' = 0 /\ task' = [task EXCEPT ![t] = "in"]

TakeTimesOut(t) ==
    /\ \/ task[t] = "asleep"
       \/ task[t] = "woken" /\ Consumes
    /\ task' = [task EXCEPT ![t] = "out"]
    /\ UNCHANGED free

Spurious(t) ==
    /\ task[t] = "asleep"
    /\ task' = [task EXCEPT ![t] = "woken"]
    /\ UNCHANGED free

bm_semaphore_take(t) == Take(t) \/ TakeTimesOut(t) \/ Spurious(t)

\* Mutant: the semaphore is given, and nobody is told.
GiveSilently(t) ==
    /\ task[t] = "in"
    /\ free' = 1
    /\ task' = [task EXCEPT ![t] = "out"]

bm_semaphore_give(t) ==
    LET after == [task EXCEPT ![t] = "out"]
        sleepers == {w \in Task : task[w] = "asleep"}
    IN /\ task[t] = "in"
       /\ free' = 1
       /\ task' \in IF free # 0 \/ sleepers = {} THEN {after}
                    ELSE {[after EXCEPT ![w] = "woken"] : w \in sleepers}

Next == \E t \in Task : bm_semaphore_take(t) \/ bm_semaphore_give(t)

Spec == Init /\ [][Next]_vars

(***************************************************************************)
(* Properties.                                                             *)
(***************************************************************************)

\* A lock is held by one task: a task that was woken finds the semaphore taken
\* by one that came later, and waits again.
OneHolder == Cardinality({t \in Task : task[t] = "in"}) + free = 1

\* Nobody sleeps beside a semaphore that is free without one task being told.
FreeIsOffered ==
    free = 1 /\ (\E t \in Task : task[t] = "asleep") => \E t \in Task : task[t] = "woken"
=============================================================================
