----------------------------- MODULE MCScheduler -----------------------------
(***************************************************************************)
(* The scheduler of scheduler.c driven by any sequence of calls the kernel *)
(* makes: scheduler_put of a task whose ready node is in no ready queue,   *)
(* scheduler_get, and scheduler_empty.  The ready queues and the bitmap    *)
(* must implement PriorityReady: the abstract FIFO of level l is the chain *)
(* of ready queue l, read through the ready nodes' tasks.                  *)
(***************************************************************************)
EXTENDS Scheduler, SequencesExt

CONSTANTS
    STasks,   \* tasks, each with one ready node
    SPrio     \* SPrio[t]: td->priority of task t

VARIABLES sm, sgot, semp

svars == <<sm, sgot, semp>>

\* The levels of the tasks; scheduler_put touches no other ready queue.
Levels == Range(SPrio)

\* The task whose ready node is n (n->data), or NULL.
TaskOf(n) == IF n = NULL THEN NULL ELSE n[1]

ReadyTasks(l) == LET s == Elems(sm, ReadyQ(l)) IN [i \in DOMAIN s |-> TaskOf(s[i])]

Queued == UNION {Range(ReadyTasks(l)) : l \in Levels}

\* scheduler_init on the kernel's memory, after task_descriptor_init has
\* cleared every ready node's link.  sch points at memory nobody cleared,
\* so its bitmap word holds whatever bits were there.
Init ==
    /\ \E garbage \in {{}, {0}, {40}} :
         sm = scheduler_init([qs  |-> [q \in {} |-> QueueInit],
                              nxt |-> [n \in {ReadyNode(t) : t \in STasks} |-> NULL],
                              td  |-> [t \in STasks |-> [priority |-> SPrio[t], state |-> "ACTIVE"]],
                              bitmap |-> garbage])
    /\ sgot = NULL /\ semp = TRUE

CallPut(t) ==
    /\ t \notin Queued
    /\ sm' = scheduler_put(sm, t)
    /\ UNCHANGED <<sgot, semp>>

CallGet ==
    LET g == scheduler_get(sm) IN
    sm' = g.mem /\ sgot' = TaskOf(g.node) /\ UNCHANGED semp

CallEmpty == semp' = scheduler_empty(sm) /\ UNCHANGED <<sm, sgot>>

Next == (\E t \in STasks : CallPut(t)) \/ CallGet \/ CallEmpty

Spec == Init /\ [][Next]_svars

Abstract == INSTANCE PriorityReady
    WITH Tasks <- STasks, Prio <- SPrio, ready <- [l \in Levels |-> ReadyTasks(l)],
         got <- sgot, emp <- semp

\* The bitmap search, the bit cleared when a level's queue is left empty
\* and the bit set by every put implement one FIFO per level served lowest
\* level first: scheduler_get never skips a ready level, never returns a
\* task twice or out of order within its level, and returns NULL, and
\* scheduler_empty TRUE, exactly when no task is ready.
RefinesPriorityReady == Abstract!Spec
=============================================================================
