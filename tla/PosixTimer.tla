----------------------------- MODULE PosixTimer -----------------------------
(***************************************************************************)
(* The BmTimer of the POSIX port (common/bm_posix.c): a timer is a thread   *)
(* that waits to be started, sleeps for the period, and runs the callback   *)
(* with the timer's mutex given back; other threads, and the callback,      *)
(* change its fields under the mutex and signal it.                         *)
(*                                                                          *)
(* A step of the thread lasts from taking the mutex to waiting, to the      *)
(* callback or to its end; an API call is one step (one that does not get   *)
(* the mutex in its time changes nothing), but bm_timer_delete by another    *)
(* thread, which gives the timer's thread a moment, is two.                  *)
(***************************************************************************)
EXTENDS Naturals

CONSTANTS
    Period,     \* the periods a timer may have, in ticks
    MaxCalls,   \* how many API calls are made on the timer
    Overlap,    \* calls may be made while the callback runs, and the callback
                \* may start its own timer
    Prompt      \* the thread uses the moment bm_timer_delete gives it

PosixTimerAssumption ==
    /\ Period \subseteq Nat \ {0} /\ MaxCalls \in Nat
    /\ Overlap \in BOOLEAN /\ Prompt \in BOOLEAN

VARIABLES
    running, auto_reload, delete_requested, self_delete, needs_reset, period_ms,
    at,         \* where the thread is
    woken,      \* its wait was ended by a signal
    left,       \* the ticks left to the deadline
    deleter,    \* bm_timer_delete by another thread: "none", "waits", "done"
    freed,      \* the timer's memory was given back
    calls,      \* API calls made
    since,      \* ticks since the timer was started or last fired
    owed,       \* it was started, and neither stopped nor (once) fired since
    fired       \* changes whenever the callback is run

apivars == <<period_ms, auto_reload>>
vars == <<running, auto_reload, delete_requested, self_delete, needs_reset, period_ms,
          at, woken, left, deleter, freed, calls, since, owed, fired>>

MaxPeriod == CHOOSE p \in Period : \A q \in Period : q <= p

TypeOK ==
    /\ {running, auto_reload, delete_requested, self_delete, needs_reset} \subseteq BOOLEAN
    /\ period_ms \in Period
    /\ at \in {"waiting", "sleeping", "callback", "gone"}
    /\ {woken, freed, owed, fired} \subseteq BOOLEAN
    /\ left \in 0..MaxPeriod /\ since \in 0..MaxPeriod
    /\ deleter \in {"none", "waits", "done"}
    /\ calls \in 0..MaxCalls

bm_timer_create ==
    /\ period_ms \in Period /\ auto_reload \in BOOLEAN
    /\ running = FALSE /\ delete_requested = FALSE /\ self_delete = FALSE /\ needs_reset = FALSE
    /\ at = "waiting" /\ woken = FALSE /\ left = 0
    /\ deleter = "none" /\ freed = FALSE
    /\ calls = 0 /\ since = 0 /\ owed = FALSE /\ fired = FALSE

Init == bm_timer_create

(***************************************************************************)
(* posix_timer_thread.                                                     *)
(***************************************************************************)

\* The thread ends, and frees the timer when the callback asked for that.
Ends ==
    /\ at' = "gone" /\ freed' = (freed \/ self_delete)
    /\ UNCHANGED <<running, needs_reset, left>>

\* Phase 1 is entered, or passed when the timer runs already.
Enters ==
    IF running
    THEN at' = "sleeping" /\ left' = period_ms /\ needs_reset' = FALSE /\ UNCHANGED <<running, freed>>
    ELSE at' = "waiting" /\ UNCHANGED <<running, freed, needs_reset, left>>

\* Phase 1: a wait that ends, after a signal or for no reason.
Waits ==
    /\ at = "waiting"
    /\ woken' = FALSE
    /\ IF delete_requested THEN Ends ELSE Enters
    /\ UNCHANGED <<delete_requested, self_delete, deleter, calls, since, owed, fired>>
    /\ UNCHANGED apivars

\* A reset is looked at before the reason why the wait ended.
Resets == needs_reset

Fires ==
    /\ at' = "callback"
    /\ since' = 0 /\ fired' = ~fired /\ owed' = auto_reload
    /\ UNCHANGED <<running, needs_reset, left, freed>>

\* Phase 2: a wait that ends, and whether the deadline was found to be over
\* (it may be over and the wait have ended by a signal).
Sleeps ==
    /\ at = "sleeping"
    /\ woken' = FALSE
    /\ \/ delete_requested /\ Ends /\ UNCHANGED <<since, fired, owed>>
       \/ ~delete_requested /\ ~running /\ Enters /\ UNCHANGED <<since, fired, owed>>
       \/ /\ ~delete_requested /\ running /\ Resets
          /\ needs_reset' = FALSE /\ left' = period_ms
          /\ UNCHANGED <<running, at, freed, since, fired, owed>>
       \/ /\ ~delete_requested /\ running /\ ~Resets
          /\ left = 0 /\ Fires
       \/ /\ ~delete_requested /\ running /\ ~Resets
          /\ UNCHANGED <<running, needs_reset, at, left, freed, since, fired, owed>>
    /\ UNCHANGED <<delete_requested, self_delete, deleter, calls>>
    /\ UNCHANGED apivars

\* The callback returns.
CallbackEnds ==
    /\ at = "callback"
    /\ IF auto_reload /\ running /\ ~delete_requested
       THEN at' = "sleeping" /\ left' = period_ms /\ UNCHANGED <<running, freed, needs_reset>>
       ELSE /\ running' = FALSE
            /\ at' = IF delete_requested THEN "gone" ELSE "waiting"
            /\ freed' = (freed \/ (delete_requested /\ self_delete))
            /\ UNCHANGED <<left, needs_reset>>
    /\ UNCHANGED <<delete_requested, self_delete, woken, deleter, calls, since, owed, fired>>
    /\ UNCHANGED apivars

Tick ==
    /\ left > 0 \/ since < MaxPeriod
    /\ left' = IF left > 0 THEN left - 1 ELSE 0
    /\ since' = IF since < MaxPeriod THEN since + 1 ELSE since
    /\ UNCHANGED <<running, delete_requested, self_delete, needs_reset, at, woken, deleter,
                   freed, calls, owed, fired>>
    /\ UNCHANGED apivars

(***************************************************************************)
(* The API.                                                                *)
(***************************************************************************)

\* Nobody uses a timer after deleting it.
Call ==
    /\ ~delete_requested /\ calls < MaxCalls
    /\ calls' = calls + 1
    /\ UNCHANGED <<at, left, fired, auto_reload>>

Signal == woken' = (woken \/ at \in {"waiting", "sleeping"})

\* The timer runs from now on, with period p, whether or not it ran before.
Started(p) ==
    /\ Call /\ (at = "callback" => Overlap)
    /\ running' = TRUE /\ needs_reset' = TRUE /\ period_ms' = p
    /\ since' = 0 /\ owed' = TRUE
    /\ Signal
    /\ UNCHANGED <<delete_requested, self_delete, deleter, freed>>

bm_timer_start == Started(period_ms)
bm_timer_reset == Started(period_ms)
bm_timer_change_period(p) == Started(p)

\* Mutant: the flag is left to the thread.
StopUnnoted ==
    /\ Call
    /\ owed' = FALSE
    /\ Signal
    /\ UNCHANGED <<running, needs_reset, delete_requested, self_delete, deleter, freed, period_ms,
                   since>>

\* By another thread, or by the callback.
bm_timer_stop ==
    /\ Call
    /\ running' = FALSE /\ owed' = FALSE
    /\ Signal
    /\ UNCHANGED <<delete_requested, self_delete, needs_reset, deleter, freed, period_ms, since>>

\* bm_timer_delete by the callback.
DeleteSelf ==
    /\ Call /\ at = "callback"
    /\ delete_requested' = TRUE /\ running' = FALSE /\ self_delete' = TRUE
    /\ owed' = FALSE
    /\ UNCHANGED <<freed, needs_reset, woken, deleter, period_ms, since>>

\* bm_timer_delete by another thread; after 1 ms the timer is freed, whatever
\* its thread does.
Delete ==
    /\ Call /\ (at = "callback" => Overlap)
    /\ delete_requested' = TRUE /\ owed' = FALSE /\ deleter' = "waits"
    /\ Signal
    /\ UNCHANGED <<running, self_delete, freed, needs_reset, period_ms, since>>
DeleteFrees ==
    /\ deleter = "waits" /\ (Prompt => at = "gone")
    /\ deleter' = "done" /\ freed' = TRUE
    /\ UNCHANGED <<running, auto_reload, delete_requested, self_delete, needs_reset, period_ms,
                   at, woken, left, calls, since, owed, fired>>
bm_timer_delete == DeleteSelf \/ Delete \/ DeleteFrees

Next ==
    \/ Waits \/ Sleeps \/ CallbackEnds \/ Tick
    \/ bm_timer_start \/ bm_timer_reset \/ \E p \in Period : bm_timer_change_period(p)
    \/ bm_timer_stop \/ bm_timer_delete

\* The scheduler runs a thread that was woken or whose deadline is over, a
\* callback ends, and the deleting thread wakes up; nothing makes a wait end
\* for no reason.
Fairness ==
    /\ WF_vars(woken /\ Waits)
    /\ WF_vars((woken \/ left = 0) /\ Sleeps)
    /\ WF_vars(CallbackEnds)
    /\ WF_vars(DeleteFrees)
    /\ WF_vars(Tick)

Spec == Init /\ [][Next]_vars /\ Fairness

(***************************************************************************)
(* Properties.                                                             *)
(***************************************************************************)

\* The callback is not run before a whole period has passed since the timer was
\* last started, given another period, or run: not when the start meets the end
\* of the time the timer was started for before.
NeverEarly == [][at' = "callback" /\ at # "callback" => since >= period_ms]_vars

\* A timer that was started runs its callback, unless it is stopped or deleted;
\* one that reloads does so again and again.
StartedFires == \A f \in BOOLEAN : owed /\ fired = f ~> ~owed \/ fired # f

\* A timer that was stopped and not started again does not run its callback.
StoppedIsQuiet == [][at' = "callback" /\ at # "callback" => owed]_vars

\* The timer's thread does not use a timer that was given back.
NoUseAfterFree == freed => at = "gone"

\* A deleted timer is given back.
DeletedIsFreed == delete_requested ~> freed
=============================================================================
