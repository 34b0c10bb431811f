---------------------------- MODULE MCClockServer ---------------------------
EXTENDS ClockServer

CONSTANTS c1, c2, e1

TwoClients == {c1, c2}
OneExiter == {e1}
NoExiter == {}

(***************************************************************************)
(* The state TLC tells apart.  It leaves out values no later step reads:  *)
(* the deadline and tid of an entry not in blocked (both are written      *)
(* before the entry is inserted again), blocked's back pointer (the code  *)
(* never reads it), the front and back of an empty queue (queue_put and   *)
(* queue_put_front overwrite them), and callTicks of a client whose last  *)
(* request is not a Delay (Due reads it only for a Delay).               *)
(***************************************************************************)
Blocked == Range(Elems(cm, "blocked"))

QueueView(q) ==
    IF cm.qs[q].elements = 0 THEN [elements |-> 0]
    ELSE IF q = "blocked" THEN [front |-> cm.qs[q].front,
                                elements |-> cm.qs[q].elements]
    ELSE cm.qs[q]

ClockView ==
    << ticks, cm.nxt, [q \in {"blocked", "free"} |-> QueueView(q)],
       [e \in Blocked |-> <<eticks[e], etid[e]>>], srv, exiter_tid,
       sendq, pc, msg, rep,
       [c \in {c \in Clients : msg[c].type = "DELAY"} |-> callTicks[c]],
       hwTicks >>
=============================================================================
