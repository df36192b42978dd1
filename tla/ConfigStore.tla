---------------------------- MODULE ConfigStore ----------------------------
(***************************************************************************)
(* What the configuration store promises its users, in terms of the maps   *)
(* from keys to values they see: one operation changes one key of one      *)
(* partition, a save makes the working values the saved ones, and a        *)
(* restart brings back saved values, except those of partitions that       *)
(* cannot be read then: such a partition starts empty, its saved values    *)
(* stay for the next restart, and the next save overwrites them.  A save   *)
(* that a restart cuts off may cost the partition its saved values, and    *)
(* then all of them.  Old and new values are never mixed.                  *)
(***************************************************************************)
EXTENDS Functions

CONSTANTS Partition, Key, Value

VARIABLES
    work,    \* work[p]: the keys of p with their values, as set and read
    saved    \* saved[p]: those a restart would bring back

Nothing == [k \in {} |-> k]

Init ==
    /\ saved \in [Partition -> {Nothing}]
    /\ work = saved

\* One key is given a value ...
With(m, k, v) == [j \in DOMAIN m \cup {k} |-> IF j = k THEN v ELSE m[j]]
Put(p, k, v) == work' = [work EXCEPT ![p] = With(@, k, v)] /\ UNCHANGED saved

\* ... or is taken away, ...
Drop(p, k) == work' = [work EXCEPT ![p] = Restrict(@, DOMAIN @ \ {k})] /\ UNCHANGED saved

\* ... or all are.
Empty(p) == work' = [work EXCEPT ![p] = Nothing] /\ UNCHANGED saved

\* The working values of a partition become the saved ones.
Save(p) == saved' = [saved EXCEPT ![p] = work[p]] /\ UNCHANGED work

\* The node starts again with what can be read of m.
Starts(m) == \E failed \in SUBSET Partition :
                work' = [p \in Partition |-> IF p \in failed THEN Nothing ELSE m[p]]
Restart == Starts(saved) /\ UNCHANGED saved

\* The save of a partition is cut off by a restart.
SaveThenRestart(p) ==
    /\ saved' \in {[saved EXCEPT ![p] = m] : m \in {work[p], Nothing}}
    /\ Starts(saved')

Next ==
    \/ Restart
    \/ \E p \in Partition :
         \/ \E k \in Key : (\E v \in Value : Put(p, k, v)) \/ Drop(p, k)
         \/ Empty(p) \/ Save(p) \/ SaveThenRestart(p)

Spec == Init /\ [][Next]_<<work, saved>>

=============================================================================
