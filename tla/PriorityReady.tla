---------------------------- MODULE PriorityReady ----------------------------
(***************************************************************************)
(* What scheduler.h promises the kernel: one FIFO of ready tasks per       *)
(* priority level, lower level first.  scheduler_put appends a task that   *)
(* is not ready to the FIFO of its priority; scheduler_get returns and     *)
(* removes the first task of the lowest non-empty level, or NULL when no   *)
(* task is ready; scheduler_empty says whether none is.  got and emp are   *)
(* what the caller saw from its last get and its last empty test.         *)
(***************************************************************************)
EXTENDS Naturals, Sequences, SequencesExt

CONSTANTS
    Tasks,    \* the tasks handed to the scheduler
    Prio,     \* Prio[t]: the priority level of task t
    Levels,   \* the priority levels
    NULL

VARIABLES ready, got, emp

Ready == UNION {Range(ready[l]) : l \in Levels}

\* The lowest level with a ready task.
Highest == CHOOSE l \in Levels : ready[l] # <<>> /\ \A k \in Levels : ready[k] # <<>> => l <= k

Init == ready = [l \in Levels |-> <<>>] /\ got = NULL /\ emp = TRUE

Put(t) ==
    /\ t \notin Ready
    /\ ready' = [ready EXCEPT ![Prio[t]] = Append(@, t)]
    /\ UNCHANGED <<got, emp>>

Get ==
    \/ /\ Ready # {}
       /\ got' = Head(ready[Highest])
       /\ ready' = [ready EXCEPT ![Highest] = Tail(@)]
       /\ UNCHANGED emp
    \/ Ready = {} /\ got' = NULL /\ UNCHANGED <<ready, emp>>

Empty == emp' = (Ready = {}) /\ UNCHANGED <<ready, got>>

Next == (\E t \in Tasks : Put(t)) \/ Get \/ Empty

Spec == Init /\ [][Next]_<<ready, got, emp>>
=============================================================================
