------------------------------- MODULE MCQueue ------------------------------
(***************************************************************************)
(* Queues of queue.c driven by any sequence of calls, as the kernel and   *)
(* the servers make them: a node is put (at the back or the front) only   *)
(* while it is in no queue, and nodes move from one queue to another.     *)
(* The links must implement NodeFifo: the abstract queue is the chain of  *)
(* next links from front up to NULL, the walk name_map_find and the      *)
(* clock server's insertion make.                                         *)
(***************************************************************************)
EXTENDS Queue, SequencesExt

CONSTANTS QIds, QNodes

VARIABLES qm, got, sz

vars == <<qm, got, sz>>

\* The nodes reached from front along next up to NULL; a cycle shows as a
\* chain longer than the number of nodes.
RECURSIVE Linked(_, _, _)
Linked(nxt, n, k) ==
    IF n = NULL \/ k = 0 THEN <<>> ELSE <<n>> \o Linked(nxt, nxt[n], k - 1)

QueueChain(q) == Linked(qm.nxt, qm.qs[q].front, Cardinality(QNodes) + 1)

Queued == UNION {Range(Elems(qm, q)) : q \in QIds}

\* queue_init of every queue; queue_node_init of every node.
Init ==
    /\ qm = [qs |-> [q \in QIds |-> QueueInit], nxt |-> [n \in QNodes |-> NULL]]
    /\ got = NULL /\ sz = 0

CallPut(q, n) ==
    /\ n \notin Queued
    /\ qm' = queue_put(qm, q, n)
    /\ UNCHANGED <<got, sz>>

CallPutFront(q, n) ==
    /\ n \notin Queued
    /\ qm' = queue_put_front(qm, q, n)
    /\ UNCHANGED <<got, sz>>

CallGet(q) ==
    LET g == queue_get(qm, q) IN
    qm' = g.mem /\ got' = g.node /\ UNCHANGED sz

CallPeek(q) == got' = queue_peek(qm, q) /\ UNCHANGED <<qm, sz>>

CallSize(q) == sz' = qm.qs[q].elements /\ UNCHANGED <<qm, got>>

Next ==
    \E q \in QIds :
        \/ \E n \in QNodes : CallPut(q, n) \/ CallPutFront(q, n)
        \/ CallGet(q) \/ CallPeek(q) \/ CallSize(q)

Spec == Init /\ [][Next]_vars

Fifo == INSTANCE NodeFifo WITH fifo <- [q \in QIds |-> QueueChain(q)]

\* The link surgery of queue_put, queue_put_front and queue_get (the back
\* pointer, the cleared next of a new back and of a removed front, the
\* count) implements a FIFO with push-front: whatever the order of calls
\* and however nodes move between queues, the NULL-terminated chain from
\* front holds exactly the queued nodes in order, get and peek return its
\* head, and queue_size its length.
RefinesNodeFifo == Fifo!Spec
=============================================================================
