----------------------------- MODULE Scheduler -----------------------------
(***************************************************************************)
(* The priority scheduler of src/src/scheduler/scheduler.c: one ready      *)
(* queue per priority and a 64-bit bitmap with bit p set when queue p is   *)
(* believed non-empty.  The bitmap is represented by the set of its set    *)
(* bit positions, so `bitmap |= 1 << p' is \cup {p}, `bitmap &= ~(1 << p)' *)
(* is \ {p}, a mask test `bitmap & (2^k - 1)' is LowBits(b, k) and         *)
(* `bitmap >>= k' is ShiftDown(b, k).                                      *)
(*                                                                         *)
(* The memory record m additionally has the fields                         *)
(*   bitmap : SUBSET 0..63                                                 *)
(*   td     : task id -> task descriptor record (priority, state, ...)     *)
(***************************************************************************)
EXTENDS Queue, Integers

\* SCHEDULER_PRIORITY_COUNT
PriorityCount == 64

\* The ready queue of priority p (sch->priority_qs[p]) and the ready node of
\* task t (td->ready_node).
ReadyQ(p) == <<"ready", p>>
ReadyNode(t) == <<t, "ready">>

LowBits(b, k) == {i \in b : i < k}
ShiftDown(b, k) == {i - k : i \in {j \in b : j >= k}}

\* Mutant: the final `count -= bitmap & 0x1' left out.
bitmap_leadingzeroes_uncorrected(b) ==
    LET Halve(s, w) == IF LowBits(s.bits, w) = {}
                       THEN [bits |-> ShiftDown(s.bits, w), count |-> s.count + w]
                       ELSE s
        s2 == Halve(Halve(Halve(Halve(Halve([bits |-> b, count |-> 1], 32), 16), 8), 4), 2)
    IN IF 0 \in b THEN 0 ELSE s2.count

\* bitmap_leadingzeroes: the index of the lowest set bit, found by halving
\* the search window five times.  Called only with a non-empty bitmap.
bitmap_leadingzeroes(b) ==
    LET Halve(s, w) == IF LowBits(s.bits, w) = {}
                       THEN [bits |-> ShiftDown(s.bits, w), count |-> s.count + w]
                       ELSE s
        s32 == Halve([bits |-> b, count |-> 1], 32)
        s16 == Halve(s32, 16)
        s8  == Halve(s16, 8)
        s4  == Halve(s8, 4)
        s2  == Halve(s4, 2)
    IN IF 0 \in b THEN 0
       ELSE s2.count - (IF 0 \in s2.bits THEN 1 ELSE 0)

\* The ready queues, one per priority level.
SchedulerQs == {ReadyQ(p) : p \in 0..(PriorityCount - 1)}

\* scheduler_init: an empty bitmap and every ready queue initialised; the
\* kernel's other queues are left alone.
scheduler_init(m) ==
    [m EXCEPT !.bitmap = {},
              !.qs = [q \in DOMAIN @ \cup SchedulerQs |->
                        IF q \in SchedulerQs THEN QueueInit ELSE @[q]]]

\* scheduler_empty: the bitmap alone decides.
scheduler_empty(m) == m.bitmap = {}

\* scheduler_put: append the task to its priority's queue, set the bit and
\* mark the task READY.  (queue_put cannot fail on a non-NULL node.)
scheduler_put(m, t) ==
    LET p == m.td[t].priority IN
    [queue_put(m, ReadyQ(p), ReadyNode(t)) EXCEPT
        !.bitmap = @ \cup {p},
        !.td[t].state = "READY"]

\* Mutant: the bit is never cleared when the queue is left empty.
scheduler_get_keep_bit(m) ==
    IF scheduler_empty(m) THEN [mem |-> m, node |-> NULL, fault |-> FALSE]
    ELSE queue_get(m, ReadyQ(bitmap_leadingzeroes(m.bitmap)))

\* scheduler_get: take the front of the queue the bitmap points at and clear
\* its bit when that queue is left empty.  Returns [mem, node, fault] as
\* queue_get does; node = NULL when the scheduler is (believed) empty.
scheduler_get(m) ==
    IF scheduler_empty(m) THEN [mem |-> m, node |-> NULL, fault |-> FALSE]
    ELSE LET idx == bitmap_leadingzeroes(m.bitmap)
             g   == queue_get(m, ReadyQ(idx))
         IN [g EXCEPT !.mem.bitmap = IF queue_empty(g.mem, ReadyQ(idx))
                                     THEN @ \ {idx} ELSE @]
=============================================================================
