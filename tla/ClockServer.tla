---------------------------- MODULE ClockServer ----------------------------
(***************************************************************************)
(* The clock server of clock_server.c: clock_server_main, its notifier and *)
(* the client wrappers Time, Delay, DelayUntil and clock_server_exit.      *)
(*                                                                         *)
(* The server keeps its delayed tasks in entries[] linked into two         *)
(* intrusive queues of queue.c, blocked (sorted by deadline) and free_list *)
(* (the unused entries); cm is that memory as in Queue.  Kernel IPC is     *)
(* abstracted as in IOServer: sendq is the server's send queue in arrival  *)
(* order, and one iteration of the server's receive loop is one step.      *)
(***************************************************************************)
EXTENDS ClockQueue, Integers, SequencesExt

CONSTANTS
    Clients,      \* tasks calling Time, Delay and DelayUntil
    Exiters,      \* tasks calling clock_server_exit once
    Notifier,     \* clock_server_notifier_main
    NEntries,     \* TASK_DESCRIPTOR_MAX_TASKS, the size of entries[]
    DelayArgs,    \* arguments of Delay
    UntilArgs,    \* arguments of DelayUntil
    Horizon,      \* bound on the timer interrupts
    TickLoss      \* may the timer fire while the notifier is not waiting?

ASSUME NEntries >= Cardinality(Clients)

Tasks == Clients \cup Exiters \cup {Notifier}
Entries == 0..NEntries-1

VARIABLES
    ticks,        \* the server's tick count
    cm,           \* blocked and free_list: [qs, nxt] over Entries
    eticks,       \* entries[i].ticks, the deadline
    etid,         \* entries[i].tid
    srv,          \* "serve", "shutdown" or "exited"
    exiter_tid,
    sendq, pc, msg, rep,
    callTicks,    \* ghost: ticks when the client's last Delay was sent
    hwTicks       \* ghost: timer interrupts so far

serverVars == <<ticks, cm, eticks, etid, srv, exiter_tid>>
vars == <<serverVars, sendq, pc, msg, rep, callTicks, hwTicks>>

\* clock_server_msg_t.
Msg(type, time) == [type |-> type, time |-> time]

\* clock_server_main's set-up loop: every entry is queue_put on free_list.
RECURSIVE PutEntries(_, _)
PutEntries(m, i) ==
    IF i = NEntries THEN m ELSE PutEntries(queue_put(m, "free", i), i + 1)

Init ==
    /\ ticks = 0
    /\ cm = PutEntries([qs  |-> [q \in {"blocked", "free"} |-> QueueInit],
                        nxt |-> [e \in Entries |-> NULL]], 0)
    /\ eticks = [e \in Entries |-> 0]
    /\ etid = [e \in Entries |-> Notifier]
    /\ srv = "serve" /\ exiter_tid = Notifier
    /\ sendq = <<>>
    \* The notifier is at its loop test with rep.type = TICK.
    /\ pc = [t \in Tasks |-> IF t = Notifier THEN "replied" ELSE "ready"]
    /\ msg = [t \in Tasks |-> Msg("NONE", 0)]
    /\ rep = [t \in Tasks |-> Msg("TICK", 0)]
    /\ callTicks = [t \in Tasks |-> 0]
    /\ hwTicks = 0

Send(t, m) ==
    /\ sendq' = Append(sendq, t)
    /\ pc' = [pc EXCEPT ![t] = "send_wait"]
    /\ msg' = [msg EXCEPT ![t] = m]

Sender == Head(sendq)

Receive(phase, types) ==
    /\ srv = phase
    /\ sendq # <<>>
    /\ msg[Sender].type \in types
    /\ sendq' = Tail(sendq)

Reply1(t, r) ==
    /\ pc' = [pc EXCEPT ![t] = "replied"]
    /\ rep' = [rep EXCEPT ![t] = r]

\* Mutant: a blocked task is released once ticks reaches its deadline.
HandleTick_ge ==
    LET t1    == ticks + 1
        front == queue_peek(cm, "blocked")
        g     == queue_get(cm, "blocked")
    IN
    /\ Receive("serve", {"TICK"})
    /\ ticks' = t1
    /\ \/ /\ front # NULL /\ t1 >= eticks[front]
          /\ cm' = queue_put(g.mem, "free", front)
          /\ pc' = [pc EXCEPT ![Sender] = "replied", ![etid[front]] = "replied"]
          /\ rep' = [rep EXCEPT ![Sender] = msg[Sender],
                                ![etid[front]] = Msg("TICK", t1)]
       \/ /\ ~(front # NULL /\ t1 >= eticks[front])
          /\ Reply1(Sender, msg[Sender])
          /\ UNCHANGED cm
    /\ UNCHANGED <<eticks, etid, srv, exiter_tid>>

\* Mutant: the released entry is not returned to free_list.
HandleTick_no_free ==
    LET t1    == ticks + 1
        front == queue_peek(cm, "blocked")
        g     == queue_get(cm, "blocked")
    IN
    /\ Receive("serve", {"TICK"})
    /\ ticks' = t1
    /\ \/ /\ front # NULL /\ t1 > eticks[front]
          /\ cm' = g.mem
          /\ pc' = [pc EXCEPT ![Sender] = "replied", ![etid[front]] = "replied"]
          /\ rep' = [rep EXCEPT ![Sender] = msg[Sender],
                                ![etid[front]] = Msg("TICK", t1)]
       \/ /\ ~(front # NULL /\ t1 > eticks[front])
          /\ Reply1(Sender, msg[Sender])
          /\ UNCHANGED cm
    /\ UNCHANGED <<eticks, etid, srv, exiter_tid>>

\* TICK: reply to the notifier first, count the tick, and release the
\* front of blocked if its deadline is now passed: one task per tick.
HandleTick ==
    LET t1    == ticks + 1
        front == queue_peek(cm, "blocked")
        g     == queue_get(cm, "blocked")
    IN
    /\ Receive("serve", {"TICK"})
    /\ ticks' = t1
    /\ \/ /\ front # NULL /\ t1 > eticks[front]
          /\ cm' = queue_put(g.mem, "free", front)
          /\ pc' = [pc EXCEPT ![Sender] = "replied", ![etid[front]] = "replied"]
          /\ rep' = [rep EXCEPT ![Sender] = msg[Sender],
                                ![etid[front]] = Msg("TICK", t1)]
       \/ /\ ~(front # NULL /\ t1 > eticks[front])
          /\ Reply1(Sender, msg[Sender])
          /\ UNCHANGED cm
    /\ UNCHANGED <<eticks, etid, srv, exiter_tid>>

HandleTime ==
    /\ Receive("serve", {"TIME"})
    /\ Reply1(Sender, Msg("TIME", ticks))
    /\ UNCHANGED serverVars

\* The DELAYUNTIL case for a request time: an error for time <= 0, an
\* immediate reply if time is already past, else a free entry is taken
\* and inserted into blocked and the sender stays reply-blocked.
DelayUntilCase(time) ==
    \/ /\ time <= 0
       /\ Reply1(Sender, Msg("ERROR", 0))
       /\ UNCHANGED <<cm, eticks, etid>>
    \/ /\ time > 0 /\ time < ticks
       /\ Reply1(Sender, Msg("TICK", ticks))
       /\ UNCHANGED <<cm, eticks, etid>>
    \/ LET g == queue_get(cm, "free")
           e == g.node
       IN  /\ time > 0 /\ time >= ticks
           /\ eticks' = [eticks EXCEPT ![e] = time]
           /\ etid' = [etid EXCEPT ![e] = Sender]
           /\ cm' = SortedInsert(g.mem, eticks', e)
           /\ pc' = [pc EXCEPT ![Sender] = "reply_wait"]
           /\ UNCHANGED rep

\* DELAY: an error for ticks <= 0, else falls through to DELAYUNTIL with
\* time + ticks.
HandleDelay ==
    /\ Receive("serve", {"DELAY"})
    /\ \/ /\ msg[Sender].time <= 0
          /\ Reply1(Sender, Msg("ERROR", 0))
          /\ UNCHANGED <<cm, eticks, etid>>
       \/ msg[Sender].time > 0 /\ DelayUntilCase(msg[Sender].time + ticks)
    /\ UNCHANGED <<ticks, srv, exiter_tid>>

HandleDelayUntil ==
    /\ Receive("serve", {"DELAYUNTIL"})
    /\ DelayUntilCase(msg[Sender].time)
    /\ UNCHANGED <<ticks, srv, exiter_tid>>

\* EXIT leaves the loop; the exiter waits for the shutdown's reply.
HandleExit ==
    /\ Receive("serve", {"EXIT"})
    /\ srv' = "shutdown" /\ exiter_tid' = Sender
    /\ pc' = [pc EXCEPT ![Sender] = "reply_wait"]
    /\ UNCHANGED <<ticks, cm, eticks, etid, rep>>

\* Shutdown (lines 178-184): receive until the notifier's TICK, dropping
\* everything else; reply EXIT to the notifier and to the exiter.
ShutdownReceive ==
    /\ Receive("shutdown", {"TICK", "TIME", "DELAY", "DELAYUNTIL", "EXIT"})
    /\ \/ /\ msg[Sender].type = "TICK"
          /\ srv' = "exited"
          /\ pc' = [pc EXCEPT ![Sender] = "replied", ![exiter_tid] = "replied"]
          /\ rep' = [rep EXCEPT ![Sender] = Msg("EXIT", -1),
                                ![exiter_tid] = Msg("EXIT", -1)]
       \/ /\ msg[Sender].type # "TICK"
          /\ pc' = [pc EXCEPT ![Sender] = "reply_wait"]
          /\ UNCHANGED <<srv, rep>>
    /\ UNCHANGED <<ticks, cm, eticks, etid, exiter_tid>>

ServerStep ==
    /\ \/ HandleTick \/ HandleTime \/ HandleDelay \/ HandleDelayUntil
       \/ HandleExit \/ ShutdownReceive
    /\ UNCHANGED <<msg, callTicks, hwTicks>>

\* A request whose release, one tick per waiter at worst, falls before
\* the last timer interrupt of the model.
InHorizon(deadline) == deadline + Cardinality(Clients) + 1 < Horizon

\* Time, Delay and DelayUntil send their request; for Delay, callTicks
\* records the server's count at the call (the only call whose due time
\* depends on it).
CallTime(c) ==
    /\ pc[c] = "ready"
    /\ Send(c, Msg("TIME", 0))
    /\ UNCHANGED <<serverVars, rep, callTicks, hwTicks>>

CallDelay(c, n) ==
    /\ pc[c] = "ready" /\ InHorizon(hwTicks + n)
    /\ Send(c, Msg("DELAY", n))
    /\ callTicks' = [callTicks EXCEPT ![c] = ticks]
    /\ UNCHANGED <<serverVars, rep, hwTicks>>

CallDelayUntil(c, t) ==
    /\ pc[c] = "ready" /\ InHorizon(t)
    /\ Send(c, Msg("DELAYUNTIL", t))
    /\ UNCHANGED <<serverVars, rep, callTicks, hwTicks>>

clock_server_exit(e) ==
    /\ pc[e] = "ready" /\ msg[e].type = "NONE"
    /\ Send(e, Msg("EXIT", 0))
    /\ UNCHANGED <<serverVars, rep, callTicks, hwTicks>>

\* A wrapper returns after the reply.  What it returns is not kept: no
\* property reads it.  (Time returns rep.time; Delay and DelayUntil test
\* msg.type, the request, for ERROR, so they return 0 even on an ERROR
\* reply.)
Return(c) ==
    /\ pc[c] = "replied"
    /\ pc' = [pc EXCEPT ![c] = "ready"]
    /\ UNCHANGED <<serverVars, sendq, msg, rep, callTicks, hwTicks>>

\* clock_server_notifier_main: exit on an EXIT reply, else
\* AwaitEvent(TIMER); woken, Send TICK.
NotifierStep ==
    /\ \/ /\ pc[Notifier] = "replied" /\ rep[Notifier].type = "EXIT"
          /\ pc' = [pc EXCEPT ![Notifier] = "exited"]
          /\ UNCHANGED <<sendq, msg>>
       \/ /\ pc[Notifier] = "replied" /\ rep[Notifier].type # "EXIT"
          /\ pc' = [pc EXCEPT ![Notifier] = "await"]
          /\ UNCHANGED <<sendq, msg>>
       \/ /\ pc[Notifier] = "woken"
          /\ Send(Notifier, Msg("TICK", 0))
    /\ UNCHANGED <<serverVars, rep, callTicks, hwTicks>>

\* Timer3 fires every 10 ms and the kernel wakes the TIMER waiters; if the
\* notifier is not waiting at that moment the tick is lost.
TimerInterrupt ==
    /\ hwTicks < Horizon
    /\ hwTicks' = hwTicks + 1
    /\ \/ /\ pc[Notifier] = "await"
          /\ pc' = [pc EXCEPT ![Notifier] = "woken"]
       \/ /\ TickLoss /\ pc[Notifier] # "await"
          /\ UNCHANGED pc
    /\ UNCHANGED <<serverVars, sendq, msg, rep, callTicks>>

Next ==
    \/ ServerStep
    \/ \E c \in Clients :
          \/ CallTime(c)
          \/ \E n \in DelayArgs : CallDelay(c, n)
          \/ \E t \in UntilArgs : CallDelayUntil(c, t)
    \/ \E e \in Exiters : clock_server_exit(e)
    \/ \E c \in Clients \cup Exiters : Return(c)
    \/ NotifierStep
    \/ TimerInterrupt

Spec == Init /\ [][Next]_vars

\* Weak fairness: the server and the notifier block in every iteration and
\* run when ready; Timer3 keeps firing (up to the model's Horizon).
FairSpec ==
    /\ Spec
    /\ WF_vars(ServerStep)
    /\ WF_vars(NotifierStep)
    /\ WF_vars(TimerInterrupt)

-----------------------------------------------------------------------------
(* Properties.                                                             *)

\* When a Delay(n) or DelayUntil(t) call's wait ends without error.
Due(c) ==
    IF msg[c].type = "DELAY" THEN callTicks[c] + msg[c].time
    ELSE msg[c].time + 1

\* No Delay or DelayUntil returns early: a Delay(n) caller is released
\* only after n ticks since its call, a DelayUntil(t) caller only once
\* ticks is greater than t (clock_server.h), whichever of the immediate
\* reply, the sorted queue and the tick handler releases it.
DelayNeverEarly ==
    [][\A c \in Clients :
         /\ pc[c] # "replied" /\ pc'[c] = "replied"
         /\ msg[c].type \in {"DELAY", "DELAYUNTIL"}
         /\ rep'[c].type # "ERROR"
         => ticks' >= Due(c)]_vars

\* While serving, blocked is a sorted list of exactly the reply-blocked
\* delayed clients, one entry each, and blocked and free_list together
\* hold every entry once (lines 85-92, 110-111, 139-163).
BlockedMatchesWaiters ==
    srv = "serve" =>
      LET s == Elems(cm, "blocked")
          f == Elems(cm, "free")
      IN  /\ Len(s) = cm.qs["blocked"].elements
          /\ Len(f) = cm.qs["free"].elements
          /\ \A i, j \in 1..Len(s) : i < j => eticks[s[i]] <= eticks[s[j]]
          /\ {etid[s[i]] : i \in 1..Len(s)}
                = {c \in Clients : pc[c] = "reply_wait"}
          /\ Len(s) = Cardinality(Range(s))
          /\ Len(s) + Len(f) = NEntries
          /\ Range(s) \cup Range(f) = Entries

\* Every Delay or DelayUntil call eventually returns.
DelayReturns == \A c \in Clients : pc[c] = "reply_wait" ~> pc[c] = "replied"
=============================================================================
