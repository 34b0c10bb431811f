---------------------------- MODULE EventHandler ----------------------------
(***************************************************************************)
(* The event handler of src/src/event_handler/event_handler.c: one wait    *)
(* queue per event id 0..EVENT_HANDLER_MAX_EVENTS-1, linked through each   *)
(* task's await_node.  Delivering an event drains the whole queue into the *)
(* scheduler with the same return value for every waiter.                  *)
(***************************************************************************)
EXTENDS Scheduler

\* EVENT_HANDLER_MAX_EVENTS
MaxEvents == 16

AwaitQ(e) == <<"await", e>>
AwaitNode(t) == <<t, "await">>

\* event_handler_add_task: out-of-range ids are refused (the kernel checks
\* them first, so the refusal is unreachable from main.c).
event_handler_add_task(m, e, t) ==
    IF e \notin 0..(MaxEvents - 1) THEN m
    ELSE queue_put([m EXCEPT !.td[t].state = "EVENT_BLOCKED"], AwaitQ(e), AwaitNode(t))

\* The loop of event_handler_handle_event: get each waiter, set its return
\* value, put it on the ready queues.  A NULL front under a non-zero count
\* sets m.fault and stops.
RECURSIVE DrainAwaitQ(_, _, _)
DrainAwaitQ(m, e, ret) ==
    IF queue_empty(m, AwaitQ(e)) THEN m
    ELSE LET g == queue_get(m, AwaitQ(e))
             t == g.node[1]
         IN IF g.fault THEN [m EXCEPT !.fault = TRUE]
            ELSE DrainAwaitQ(scheduler_put([g.mem EXCEPT !.td[t].ret = ret], t), e, ret)

\* Mutant: `if' in place of `while': only the first waiter is woken.
event_handler_handle_event_first(m, e, ret) ==
    IF e \notin 0..(MaxEvents - 1) \/ queue_empty(m, AwaitQ(e)) THEN m
    ELSE LET g == queue_get(m, AwaitQ(e)) IN
         IF g.fault THEN [m EXCEPT !.fault = TRUE]
         ELSE scheduler_put([g.mem EXCEPT !.td[g.node[1]].ret = ret], g.node[1])

\* event_handler_handle_event.
event_handler_handle_event(m, e, ret) ==
    IF e \notin 0..(MaxEvents - 1) THEN m ELSE DrainAwaitQ(m, e, ret)

\* Mutant: the loop starts at event 1.
event_handler_empty_from_one(m) == \A e \in 1..(MaxEvents - 1) : queue_empty(m, AwaitQ(e))

\* event_handler_empty: no task waits on any event.
event_handler_empty(m) == \A e \in 0..(MaxEvents - 1) : queue_empty(m, AwaitQ(e))
=============================================================================
