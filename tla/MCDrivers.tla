----------------------------- MODULE MCDrivers ------------------------------
(***************************************************************************)
(* The parts of the node that wait for time and for each other: the        *)
(* exchange of frames with the ADIN2111, its bring-up and links, its       *)
(* registers, the timers of the platform, and the loop that matches a      *)
(* topic, each over values of its constants that TLC can exhaust. One of   *)
(* them runs, which says which; the others rest where they begin.          *)
(***************************************************************************)
EXTENDS AdinRegs

\* The steps of the bring-up, every one of which may fail but the hook of the
\* application, the mask of the MAC and the setting of its checksums.
Steps == {"reset", "id", "resetc", "config2", "phy2up", "identity", "powerdown",
          "mask", "clear", "static", "an", "unmask", "pins", "link", "rx", "sync",
          "up", "disable", "write"}

VARIABLES
    which,      \* the component that runs
    dev, spi_chip, on, sent, arrived, statuses,
    timer_running, auto_reload, delete_requested, self_delete, needs_reset,
    period_ms, at, woken, left, deleter, freed, timer_calls, since, owed, fired,
    str, pat, str_at, pat_at, star_idx, match_idx, pc

S == INSTANCE AdinSpi WITH
        QueueLen <- 2, RxBufs <- 1, Chunk <- 4, MinFrame <- 3, RxWords <- 9,
        MaxChunks <- 2, Credits <- 2, ToSend <- {<<2, 0>>, <<3, 2>>, <<5, 0>>, <<6, 2>>},
        ToArrive <- {<<4, 2, FALSE>>, <<9, 1, FALSE>>, <<5, 2, TRUE>>},
        Ons <- {{1, 2}, {2}}, Level <- TRUE, Noise <- FALSE, MaxFrame <- 2, MaxStatus <- 1,
        chip <- spi_chip
T == INSTANCE PosixTimer WITH
        Period <- {1, 2}, MaxCalls <- 3, Overlap <- FALSE, Prompt <- TRUE,
        running <- timer_running, calls <- timer_calls
W == INSTANCE WildcardLoop WITH
        Letter <- {"a", "b"}, MaxStr <- 5, MaxPat <- 4, i <- str_at, j <- pat_at

spivars == <<dev, spi_chip, on, sent, arrived, statuses>>
regsvars == <<irq, pendingCtrl, spi, mdio, pin, event, task, ops, events, overlap, wrong>>
timervars == <<timer_running, auto_reload, delete_requested, self_delete, needs_reset,
         period_ms, at, woken, left, deleter, freed, timer_calls, since, owed, fired>>
wildcardvars == <<str, pat, str_at, pat_at, star_idx, match_idx, pc>>

ASSUME
    /\ S!AdinSpiAssumption
    /\ K!AdinLinkAssumption
    /\ AdinRegsAssumption
    /\ T!PosixTimerAssumption
    /\ W!WildcardAssumption

\* Where a component that does not run stays.
SpiRests == S!Init /\ on = {2}
LinkRests == K!Init
RegsRests == Init
TimerRests == T!Init /\ period_ms = 1 /\ auto_reload
WildcardRests == W!Init /\ str = <<>> /\ pat = <<>>

MCInit ==
    \/ /\ which = "spi" /\ S!Init
       /\ LinkRests /\ RegsRests /\ TimerRests /\ WildcardRests
    \/ /\ which = "link" /\ K!Init
       /\ SpiRests /\ RegsRests /\ TimerRests /\ WildcardRests
    \/ /\ which = "regs" /\ Init
       /\ SpiRests /\ LinkRests /\ TimerRests /\ WildcardRests
    \/ /\ which = "timer" /\ T!Init
       /\ SpiRests /\ LinkRests /\ RegsRests /\ WildcardRests
    \/ /\ which = "wildcard" /\ W!Init
       /\ SpiRests /\ LinkRests /\ RegsRests /\ TimerRests

MCNext ==
    /\ UNCHANGED which
    /\ \/ /\ which = "spi" /\ S!Next
          /\ UNCHANGED <<linkvars, regsvars, timervars, wildcardvars>>
       \/ /\ which = "link" /\ K!Next
          /\ UNCHANGED <<spivars, regsvars, timervars, wildcardvars>>
       \/ /\ which = "regs" /\ Next
          /\ UNCHANGED <<spivars, linkvars, timervars, wildcardvars>>
       \/ /\ which = "timer" /\ T!Next
          /\ UNCHANGED <<spivars, linkvars, regsvars, wildcardvars>>
       \/ /\ which = "wildcard" /\ W!Next
          /\ UNCHANGED <<spivars, linkvars, regsvars, timervars>>

mcvars == <<which, spivars, linkvars, regsvars, timervars, wildcardvars>>

\* The fairness of each component's own specification, while it runs.
MCFairness ==
    /\ ([]<>~(which = "spi" /\ S!CanWork) \/ []<><<S!DidWork>>_spivars)
    /\ WF_linkvars(which = "link" /\ K!Handling)
    /\ WF_linkvars(which = "link" /\ K!Chain)
    /\ \A t \in Task : WF_regsvars(which = "regs" /\ TaskStep(t))
    /\ WF_regsvars(which = "regs" /\ Interrupt)
    /\ WF_regsvars(which = "regs" /\ oaIrqHandler)
    /\ WF_regsvars(which = "regs" /\ Bus)
    /\ WF_regsvars(which = "regs" /\ MdioDone)
    /\ WF_timervars(which = "timer" /\ woken /\ T!Waits)
    /\ WF_timervars(which = "timer" /\ (woken \/ left = 0) /\ T!Sleeps)
    /\ WF_timervars(which = "timer" /\ T!CallbackEnds)
    /\ WF_timervars(which = "timer" /\ T!DeleteFrees)
    /\ WF_timervars(which = "timer" /\ T!Tick)
    /\ WF_wildcardvars(which = "wildcard" /\ W!Next)

MCSpec == MCInit /\ [][MCNext]_mcvars /\ MCFairness

\* Frames to and from the ADIN2111: a buffer has as many references as the
\* ring has entries for it, what the chip puts together from the chunks is
\* what was queued and what L2 is given is what arrived undamaged (whole, in
\* order, once), no chunk is sent that the chip has no memory for, and a
\* frame queued with nothing before it leaves by its port.
TransfersAreRight ==
    which = "spi" =>
      /\ S!TypeOK
      /\ S!RefsMatch
      /\ S!TxIntact
      /\ S!NoTxOverflow
      /\ S!RxIntact
      /\ S!LonePort

\* The loop of bm_wildcard_match ends, and its answer is that of the
\* definition of matching.
WildcardDecides ==
    /\ [](which = "wildcard" => W!AnswersMatches)
    /\ (which = "wildcard" => W!Terminates)

\* A POSIX timer runs its callback neither before a whole period has passed
\* since it was last started, set or run, nor after it was stopped, and is
\* not used once it was given back; one that was started does run its
\* callback unless it is stopped or deleted (again and again if it reloads),
\* and one that was deleted is given back.
TimerKeepsTime ==
    /\ [](which = "timer" => T!TypeOK)
    /\ [](which = "timer" => T!NoUseAfterFree)
    /\ T!NeverEarly
    /\ T!StoppedIsQuiet
    /\ T!StartedFires
    /\ T!DeletedIsFreed

\* Every frame that was queued goes out and every undamaged one that arrives
\* is given to L2, a change of a link is told once links are still, and what
\* a PHY has to say is read.
DriverServes ==
    /\ S!QueuedIsSent
    /\ S!ArrivedIsGiven
    /\ K!ChangeIsTold
    /\ PinIsServed
=============================================================================
