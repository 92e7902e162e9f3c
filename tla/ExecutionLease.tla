---------------------------- MODULE ExecutionLease ----------------------------
(***************************************************************************)
(* What the execution authority promises: a lease with one holder at a     *)
(* time, stamped with an epoch that only grows, and no takeover.           *)
(***************************************************************************)
EXTENDS Integers

CONSTANTS Procs, MaxEpoch

VARIABLES
    epoch,    \* the last epoch granted
    holders,  \* who holds the lease: nobody or one process
    term      \* per process: the epoch it was granted, 0 for none

vars == <<epoch, holders, term>>

Init == epoch = 0 /\ holders = {} /\ term = [p \in Procs |-> 0]

\* A free lease is granted once to a process, under the next epoch.
Grant(p) ==
    /\ holders = {}
    /\ term[p] = 0
    /\ epoch < MaxEpoch
    /\ epoch' = epoch + 1
    /\ holders' = {p}
    /\ term' = [term EXCEPT ![p] = epoch + 1]

Release(p) ==
    /\ p \in holders
    /\ holders' = holders \ {p}
    /\ UNCHANGED <<epoch, term>>

Next == \E p \in Procs : Grant(p) \/ Release(p)

Spec == Init /\ [][Next]_vars
==============================================================================
