------------------------------ MODULE NodeFifo ------------------------------
(***************************************************************************)
(* What the intrusive queue of queue.h promises its users (the scheduler, *)
(* the send queues, the event queues and the servers' free lists): every  *)
(* queue is a FIFO of nodes, a node can be pushed at either end while it   *)
(* is in no queue, get and peek give the front node or NULL when the      *)
(* queue is empty, and size counts the nodes.  got and sz are what the    *)
(* caller saw from its last get or peek, and its last size.               *)
(***************************************************************************)
EXTENDS Naturals, Sequences, SequencesExt

CONSTANTS QIds, QNodes, NULL

VARIABLES fifo, got, sz

Queued == UNION {Range(fifo[q]) : q \in QIds}

Init == fifo = [q \in QIds |-> <<>>] /\ got = NULL /\ sz = 0

Put(q, n) ==
    /\ n \notin Queued
    /\ fifo' = [fifo EXCEPT ![q] = Append(@, n)]
    /\ UNCHANGED <<got, sz>>

PutFront(q, n) ==
    /\ n \notin Queued
    /\ fifo' = [fifo EXCEPT ![q] = <<n>> \o @]
    /\ UNCHANGED <<got, sz>>

Get(q) ==
    \/ /\ fifo[q] # <<>>
       /\ got' = Head(fifo[q]) /\ fifo' = [fifo EXCEPT ![q] = Tail(@)]
       /\ UNCHANGED sz
    \/ fifo[q] = <<>> /\ got' = NULL /\ UNCHANGED <<fifo, sz>>

Peek(q) ==
    /\ got' = IF fifo[q] = <<>> THEN NULL ELSE Head(fifo[q])
    /\ UNCHANGED <<fifo, sz>>

Size(q) == sz' = Len(fifo[q]) /\ UNCHANGED <<fifo, got>>

Next ==
    \E q \in QIds :
        \/ \E n \in QNodes : Put(q, n) \/ PutFront(q, n)
        \/ Get(q) \/ Peek(q) \/ Size(q)

Spec == Init /\ [][Next]_<<fifo, got, sz>>
=============================================================================
