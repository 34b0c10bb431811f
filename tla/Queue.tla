------------------------------- MODULE Queue -------------------------------
(***************************************************************************)
(* The intrusive FIFO of src/src/queue/queue.c.                            *)
(*                                                                         *)
(* A queue is the record [front, back, elements] of queue_t; the links are *)
(* the `next' fields of queue_node_t, kept in one function nxt from nodes  *)
(* to nodes (or NULL).  A node is never owned by the queue: the same node  *)
(* can be linked into a second queue, or twice into one, and these         *)
(* operators do to the links exactly what the C code does in that case.    *)
(*                                                                         *)
(* The operators act on a memory record m with (at least) the fields       *)
(*   qs  : queue id -> [front, back, elements]                             *)
(*   nxt : node -> node \cup {NULL}                                        *)
(* and return the updated record, so that a kernel handler that performs   *)
(* several queue operations is a composition of them.                      *)
(***************************************************************************)
EXTENDS Naturals, Sequences, FiniteSets

CONSTANT NULL

\* queue_init: an empty queue.
QueueInit == [front |-> NULL, back |-> NULL, elements |-> 0]

\* queue_empty / queue_size.
queue_empty(m, q) == m.qs[q].elements = 0

\* queue_peek: the front node (its data), or NULL for an empty queue.
queue_peek(m, q) == IF queue_empty(m, q) THEN NULL ELSE m.qs[q].front

\* queue_put: append node n.  The old back's link is written only when the
\* queue is non-empty; n->next is cleared last, so putting the current back
\* again leaves it with a NULL link and an element count one too high.
queue_put(m, q, n) ==
    LET Q == m.qs[q] IN
    [m EXCEPT
        !.nxt   = IF Q.elements = 0 THEN [@ EXCEPT ![n] = NULL]
                                    ELSE [@ EXCEPT ![Q.back] = n, ![n] = NULL],
        !.qs[q] = [front    |-> IF Q.elements = 0 THEN n ELSE Q.front,
                   back     |-> n,
                   elements |-> Q.elements + 1]]

\* Mutant: the back pointer is moved to the new node in both branches.
queue_put_front_always_back(m, q, n) ==
    LET Q == m.qs[q] IN
    [m EXCEPT
        !.nxt[n] = IF Q.elements = 0 THEN NULL ELSE Q.front,
        !.qs[q]  = [front    |-> n,
                    back     |-> n,
                    elements |-> Q.elements + 1]]

\* queue_put_front: push node n before the front.
queue_put_front(m, q, n) ==
    LET Q == m.qs[q] IN
    [m EXCEPT
        !.nxt[n] = IF Q.elements = 0 THEN NULL ELSE Q.front,
        !.qs[q]  = [front    |-> n,
                    back     |-> IF Q.elements = 0 THEN n ELSE Q.back,
                    elements |-> Q.elements + 1]]

\* queue_get: unlink the front node.  Returns [mem, node, fault]: node is
\* NULL for an empty queue; fault is TRUE when the count says non-empty but
\* the front pointer is NULL (the C code then dereferences NULL).
queue_get(m, q) ==
    LET Q == m.qs[q] IN
    IF Q.elements = 0 THEN [mem |-> m, node |-> NULL, fault |-> FALSE]
    ELSE IF Q.front = NULL THEN [mem |-> m, node |-> NULL, fault |-> TRUE]
    ELSE [mem   |-> [m EXCEPT !.qs[q]        = [Q EXCEPT !.front    = m.nxt[Q.front],
                                                             !.elements = @ - 1],
                              !.nxt[Q.front] = NULL],
          node  |-> Q.front,
          fault |-> FALSE]

\* queue_mtf(ctx, parent): move parent->next to the front.  Returns
\* [mem, err].  parent = NULL is a no-op returning 0.
queue_mtf(m, q, parent) ==
    IF parent = NULL THEN [mem |-> m, err |-> 0]
    ELSE IF m.nxt[parent] = NULL \/ queue_empty(m, q) THEN [mem |-> m, err |-> 1]
    ELSE LET nf == m.nxt[parent] IN
         [mem |-> [m EXCEPT !.nxt = [@ EXCEPT ![parent] = m.nxt[nf], ![nf] = parent],
                            !.qs[q].front = nf],
          err |-> 0]

(***************************************************************************)
(* The abstract view of a queue: the sequence of nodes reached from front  *)
(* by following `elements' links, stopping early at NULL.                  *)
(***************************************************************************)
RECURSIVE Chain(_, _, _)
Chain(nxt, n, k) ==
    IF k = 0 \/ n = NULL THEN <<>> ELSE <<n>> \o Chain(nxt, nxt[n], k - 1)

Elems(m, q) == Chain(m.nxt, m.qs[q].front, m.qs[q].elements)

\* A queue whose links agree with its header: `elements' distinct nodes,
\* ending at back, whose link is NULL.
WellFormed(m, q) ==
    LET s == Elems(m, q) IN
    /\ Len(s) = m.qs[q].elements
    /\ Cardinality({s[i] : i \in DOMAIN s}) = Len(s)
    /\ s # <<>> => /\ s[Len(s)] = m.qs[q].back
                   /\ m.nxt[m.qs[q].back] = NULL
=============================================================================
