-------------------------- MODULE CompletionCounter --------------------------
(***************************************************************************)
(* What a tracking semaphore promises the rest of the driver: work is      *)
(* queued and executed in order, and the completed value that the CPU sees *)
(* only grows and never runs ahead of what the GPU has executed.           *)
(***************************************************************************)
EXTENDS Naturals

VARIABLES
    queued,    \* last value queued
    executed,  \* last value the GPU has released
    completed  \* last value the CPU has observed

vars == <<queued, executed, completed>>

Init == queued = 0 /\ executed = 0 /\ completed = 0

Queue == queued' = queued + 1 /\ UNCHANGED <<executed, completed>>

Execute ==
    /\ executed < queued
    /\ executed' = executed + 1
    /\ UNCHANGED <<queued, completed>>

Observe ==
    /\ completed' \in completed + 1 .. executed
    /\ UNCHANGED <<queued, executed>>

Next == Queue \/ Execute \/ Observe

Spec == Init /\ [][Next]_vars
=============================================================================
