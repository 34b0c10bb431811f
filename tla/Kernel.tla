------------------------------- MODULE Kernel -------------------------------
(***************************************************************************)
(* The kernel of src/src/main.c: the loop of main() that takes the next    *)
(* task from the scheduler, activates it, and handles the software         *)
(* interrupt (system call) or hardware interrupt it comes back with.       *)
(*                                                                         *)
(* The kernel is single-threaded and runs with interrupts off, so one      *)
(* iteration of the loop (scheduler_get, activate, handle) is one step.    *)
(* What a task does while it runs is its program's business: a user task  *)
(* may issue any system call with arguments from small CONSTANT sets, or   *)
(* be preempted by any enabled interrupt.  The idle task (tid 1) runs the  *)
(* fixed program idle_main.                                                *)
(*                                                                         *)
(* Kernel memory is the record mem (queues, links, bitmap, task table);   *)
(* a handler computes the new record with the operators of Queue,          *)
(* Scheduler and EventHandler and Commit writes it back.                   *)
(*                                                                         *)
(* owed, sentTo, inSend and repBuf are the user programs' view (what a     *)
(* task learnt from Receive, whom it sent to, what its reply buffer        *)
(* holds); they are what the IPC properties are stated over.               *)
(***************************************************************************)
EXTENDS EventHandler, FiniteSetsExt, TLC

CONSTANTS
    MaxTasks,        \* TASK_DESCRIPTOR_MAX_TASKS, scaled down
    CreatePrios,     \* priority arguments tasks pass to Create
    Lens,            \* message and reply lengths tasks pass to IPC calls
    AwaitArgs,       \* event ids tasks pass to AwaitEvent
    HwData,          \* values read from a UART data / flag register
    CreateWhenFull,  \* may a task call Create when the table is full?
    ReplyAnyTarget,  \* may a task Reply to a task it has not received from?
    RxTimeoutIrq,    \* was a UART's receive-timeout enable left set at boot?
    UninitTidMatch   \* may an unused table slot's garbage tid equal its index?

ASSUME MaxTasks \in 3..8
ASSUME CreatePrios \subseteq Int /\ Lens \subseteq Nat \ {0} /\ AwaitArgs \subseteq Int
ASSUME ~(ReplyAnyTarget /\ UninitTidMatch)

IDLE_TASK_TID == 1
UserMainPriority == 1     \* task_descriptor_init(tds, 0, 1, ...) in init()
IdlePriority == 28        \* task_descriptor_init(tds + 1, 1, 28, ...) in init()

\* event_t (sys_call.h)
TIMER == 0
UART1_MS == 2
UART1_RX == 3
UART1_TX == 5
UART2_RX == 7
UART2_TX == 9
\* The event recorded when a UART interrupt has an unexpected cause.
UnknownIrq == -1

Slots == 0..(MaxTasks - 1)
ReadyPrios == 0..(PriorityCount - 1)
SendQ(t) == <<"send", t>>
SendNode(t) == <<t, "send">>
QueueIds == {ReadyQ(p) : p \in ReadyPrios} \cup {SendQ(t) : t \in Slots}
              \cup {AwaitQ(e) : e \in 0..(MaxEvents - 1)}
Nodes == Slots \X {"ready", "send", "await"}
States == {"READY", "EXITED", "SEND_BLOCKED", "RECEIVE_BLOCKED", "REPLY_BLOCKED", "EVENT_BLOCKED"}
Uarts == {1, 2}

VARIABLES
    qs, nxt, bitmap, td,  \* kernel memory: queues, links, ready bitmap, task table
    nextFree,             \* ctx->next_free_td
    kstate,               \* "running", or why main() left its loop
    idleExit,             \* the idle task's is_exit flag
    idlePastLoop,         \* idle_main has read is_exit = true and left its loop
    ctlr,                 \* interrupt-enable bits of each UART's control register
    panicked,             \* kernel_panic has run
    lastRun,              \* the task activated by the last step (NULL: none)
    irq,                  \* the event the hardware raised in the last step
    owed, sentTo, inSend, repBuf   \* user programs' view

memVars == <<qs, nxt, bitmap, td>>
userVars == <<owed, sentTo, inSend, repBuf>>
vars == <<qs, nxt, bitmap, td, nextFree, kstate, idleExit, idlePastLoop, ctlr, panicked,
          lastRun, irq, owed, sentTo, inSend, repBuf>>

mem == [qs |-> qs, nxt |-> nxt, bitmap |-> bitmap, td |-> td, fault |-> FALSE]

\* Write a memory record back; a NULL dereference in it stops the kernel.
Commit(m, ks) ==
    /\ qs' = m.qs /\ nxt' = m.nxt /\ bitmap' = m.bitmap /\ td' = m.td
    /\ kstate' = IF m.fault THEN "crashed" ELSE ks

\* task_descriptor_set_return_value: r0 on the task's saved stack.
Ret(m, t, r) == [m EXCEPT !.td[t].ret = r]

\* task_descriptor_init: identity, priority, parent, fresh nodes and send
\* queue.  message_params is not initialised (it keeps the slot's garbage).
task_descriptor_init(m, t, prio, parent) ==
    [m EXCEPT !.td[t] = [@ EXCEPT !.tid = t, !.priority = prio, !.parent = parent,
                                  !.ret = 0, !.state = "READY"],
              !.nxt = [@ EXCEPT ![ReadyNode(t)] = NULL, ![SendNode(t)] = NULL,
                                ![AwaitNode(t)] = NULL],
              !.qs[SendQ(t)] = QueueInit]

\* What `tds[t].message_params.rep_len' can read as: garbage if the task
\* never sent.
RepLenRead(m, t) == IF m.td[t].repLen = NULL THEN Lens ELSE {m.td[t].repLen}

\* A task's program has run again: it has seen the result of its last Send.
Ran(t) == inSend' = [inSend EXCEPT ![t] = FALSE]

-----------------------------------------------------------------------------
(* System-call handlers (main.c).  m is the memory after scheduler_get,    *)
(* t the active task.  Each ends as handle() does: the return value is    *)
(* written to the active task unless the call was Exit or Quit.            *)

kernel_pass(m, t) ==
    /\ Commit(Ret(scheduler_put(m, t), t, 0), "running")
    /\ Ran(t)
    /\ UNCHANGED <<nextFree, ctlr, panicked, owed, sentTo, repBuf>>

\* Mutant: next_free_td is advanced before the table-full check.
kernel_create_count_first(m, t, pr) ==
    /\ CreateWhenFull \/ nextFree < MaxTasks
    /\ nextFree' = nextFree + 1
    /\ \/ /\ pr < 0 \/ pr > 63
          /\ Commit(Ret(m, t, -1), "running")
       \/ /\ pr \in 0..63 /\ nextFree >= MaxTasks
          /\ Commit(Ret(m, t, -2), "running")
       \/ /\ pr \in 0..63 /\ nextFree < MaxTasks
          /\ Commit(Ret(scheduler_put(scheduler_put(task_descriptor_init(m, nextFree, pr, t),
                                                  nextFree), t), t, nextFree), "running")
    /\ Ran(t)
    /\ UNCHANGED <<ctlr, panicked, owed, sentTo, repBuf>>

\* A failed Create returns without putting the caller back.
kernel_create(m, t, pr) ==
    /\ CreateWhenFull \/ nextFree < MaxTasks
    /\ \/ /\ pr < 0 \/ pr > 63
          /\ Commit(Ret(m, t, -1), "running")
          /\ UNCHANGED nextFree
       \/ /\ pr \in 0..63 /\ nextFree >= MaxTasks
          /\ Commit(Ret(m, t, -2), "running")
          /\ UNCHANGED nextFree
       \/ /\ pr \in 0..63 /\ nextFree < MaxTasks
          /\ LET n  == nextFree
                 m1 == task_descriptor_init(m, n, pr, t)
             IN Commit(Ret(scheduler_put(scheduler_put(m1, n), t), t, n), "running")
          /\ nextFree' = nextFree + 1
    /\ Ran(t)
    /\ UNCHANGED <<ctlr, panicked, owed, sentTo, repBuf>>

kernel_mytid(m, t) ==
    /\ Commit(Ret(scheduler_put(m, t), t, t), "running")
    /\ Ran(t)
    /\ UNCHANGED <<nextFree, ctlr, panicked, owed, sentTo, repBuf>>

kernel_parenttid(m, t) ==
    /\ Commit(Ret(scheduler_put(m, t), t,
                  IF m.td[t].parent = NULL THEN -1 ELSE m.td[t].parent), "running")
    /\ Ran(t)
    /\ UNCHANGED <<nextFree, ctlr, panicked, owed, sentTo, repBuf>>

\* Exit: no return value; the loop ends if the bitmap is now empty.
kernel_exit(m, t) ==
    /\ Commit([m EXCEPT !.td[t].state = "EXITED"],
              IF scheduler_empty(m) THEN "empty" ELSE "running")
    /\ Ran(t)
    /\ UNCHANGED <<nextFree, ctlr, panicked, owed, sentTo, repBuf>>

kernel_quit(m, t) ==
    /\ Commit(m, "quit")
    /\ Ran(t)
    /\ UNCHANGED <<nextFree, ctlr, panicked, owed, sentTo, repBuf>>

\* kernel_panic from a system call: clear the bitmap; the caller is not put.
kernel_panic(m, t) ==
    /\ Commit(Ret([m EXCEPT !.bitmap = {}], t, 0), "running")
    /\ panicked' = TRUE
    /\ Ran(t)
    /\ UNCHANGED <<nextFree, ctlr, owed, sentTo, repBuf>>

\* Send to r.  A receiver blocked in Receive gets the message at once and
\* learns the sender; otherwise the sender joins r's send queue.  The tid
\* check only compares the slot's tid field, so any created task (exited
\* ones included) is a valid target.
kernel_send(m, t, r, len, rlen) ==
    LET rcv == m.td[r] IN
    \/ /\ rcv.tid # r
       /\ Commit(Ret(scheduler_put(m, t), t, -1), "running")
       /\ Ran(t)
       /\ UNCHANGED <<owed, sentTo, repBuf>>
    \/ /\ rcv.tid = r /\ rcv.state = "SEND_BLOCKED" /\ rcv.msgLen # len
       /\ Commit(Ret(scheduler_put(m, t), t, -2), "running")
       /\ Ran(t)
       /\ UNCHANGED <<owed, sentTo, repBuf>>
    \/ /\ rcv.tid = r /\ rcv.state = "SEND_BLOCKED" /\ rcv.msgLen = len
       /\ LET m1 == scheduler_put(Ret(m, r, t), r) IN
          Commit(Ret([m1 EXCEPT !.td[t].state = "REPLY_BLOCKED", !.td[t].repLen = rlen], t, 0),
                 "running")
       /\ owed' = [owed EXCEPT ![r] = @ \cup {t}]
       /\ sentTo' = [sentTo EXCEPT ![t] = r]
       /\ inSend' = [inSend EXCEPT ![t] = TRUE]
       /\ UNCHANGED repBuf
    \/ /\ rcv.tid = r /\ rcv.state # "SEND_BLOCKED"
       /\ LET m1 == queue_put(m, SendQ(r), SendNode(t)) IN
          Commit(Ret([m1 EXCEPT !.td[t].state = "RECEIVE_BLOCKED", !.td[t].msgLen = len,
                                !.td[t].repLen = rlen], t, 0), "running")
       /\ sentTo' = [sentTo EXCEPT ![t] = r]
       /\ inSend' = [inSend EXCEPT ![t] = TRUE]
       /\ UNCHANGED <<owed, repBuf>>
    /\ UNCHANGED <<nextFree, ctlr, panicked>>

\* Mutant: the sender's state is not set to REPLY_BLOCKED.
kernel_receive_keep_state(m, t, len) ==
    \/ /\ ~queue_empty(m, SendQ(t))
       /\ LET g == queue_get(m, SendQ(t))
              s == g.node[1]
          IN \/ /\ g.mem.td[s].msgLen # len
                /\ Commit(Ret(scheduler_put(g.mem, t), t, -1), "running")
                /\ UNCHANGED owed
             \/ /\ g.mem.td[s].msgLen = len
                /\ Commit(Ret(scheduler_put(g.mem, t), t, s), "running")
                /\ owed' = [owed EXCEPT ![t] = @ \cup {s}]
    \/ /\ queue_empty(m, SendQ(t))
       /\ Commit(Ret([m EXCEPT !.td[t].state = "SEND_BLOCKED", !.td[t].msgLen = len], t, 0),
                 "running")
       /\ UNCHANGED owed
    /\ Ran(t)
    /\ UNCHANGED <<nextFree, ctlr, panicked, sentTo, repBuf>>

\* Receive.  A waiting sender is dequeued before its length is compared: on
\* a mismatch the receiver gets -1 and the sender is in no queue.
kernel_receive(m, t, len) ==
    \/ /\ ~queue_empty(m, SendQ(t))
       /\ LET g == queue_get(m, SendQ(t))
              s == g.node[1]
          IN \/ /\ g.mem.td[s].msgLen # len
                /\ Commit(Ret(scheduler_put(g.mem, t), t, -1), "running")
                /\ UNCHANGED owed
             \/ /\ g.mem.td[s].msgLen = len
                /\ Commit(Ret([scheduler_put(g.mem, t) EXCEPT !.td[s].state = "REPLY_BLOCKED"],
                              t, s), "running")
                /\ owed' = [owed EXCEPT ![t] = @ \cup {s}]
    \/ /\ queue_empty(m, SendQ(t))
       /\ Commit(Ret([m EXCEPT !.td[t].state = "SEND_BLOCKED", !.td[t].msgLen = len], t, 0),
                 "running")
       /\ UNCHANGED owed
    /\ Ran(t)
    /\ UNCHANGED <<nextFree, ctlr, panicked, sentTo, repBuf>>

\* Mutant: the reply receiver is not put back on the ready queues.
kernel_reply_no_wake(m, t, r, len) ==
    \E rl \in RepLenRead(m, r) :
    \/ /\ m.td[r].tid # r
       /\ Commit(Ret(scheduler_put(m, t), t, -1), "running")
       /\ UNCHANGED <<owed, repBuf>>
    \/ /\ m.td[r].tid = r /\ rl # len
       /\ Commit(Ret(scheduler_put(m, t), t, -2), "running")
       /\ UNCHANGED <<owed, repBuf>>
    \/ /\ m.td[r].tid = r /\ rl = len
       /\ Commit(Ret(scheduler_put(Ret(m, r, 0), t), t, 0), "running")
       /\ repBuf' = [repBuf EXCEPT ![r] = t]
       /\ owed' = [owed EXCEPT ![t] = @ \ {r}]
    /\ Ran(t)
    /\ UNCHANGED <<nextFree, ctlr, panicked, sentTo>>

\* Reply to r: the target's state is never looked at.
kernel_reply(m, t, r, len) ==
    \E rl \in RepLenRead(m, r) :
    \/ /\ m.td[r].tid # r
       /\ Commit(Ret(scheduler_put(m, t), t, -1), "running")
       /\ UNCHANGED <<owed, repBuf>>
    \/ /\ m.td[r].tid = r /\ rl # len
       /\ Commit(Ret(scheduler_put(m, t), t, -2), "running")
       /\ UNCHANGED <<owed, repBuf>>
    \/ /\ m.td[r].tid = r /\ rl = len
       /\ Commit(Ret(scheduler_put(scheduler_put(Ret(m, r, 0), r), t), t, 0), "running")
       /\ repBuf' = [repBuf EXCEPT ![r] = t]
       /\ owed' = [owed EXCEPT ![t] = @ \ {r}]
    /\ Ran(t)
    /\ UNCHANGED <<nextFree, ctlr, panicked, sentTo>>

\* The UART interrupt that AwaitEvent(e) enables, as <<uart, enable bit>>.
IrqEnable == (UART1_TX :> <<1, "TIEN">>) @@ (UART2_TX :> <<2, "TIEN">>)
          @@ (UART1_RX :> <<1, "RIEN">>) @@ (UART2_RX :> <<2, "RIEN">>)
          @@ (UART1_MS :> <<1, "MSIEN">>)

kernel_await_event(m, t, e) ==
    \/ /\ e \notin 0..(MaxEvents - 1)
       /\ Commit(Ret(scheduler_put(m, t), t, -1), "running")
       /\ UNCHANGED ctlr
    \/ /\ e \in 0..(MaxEvents - 1)
       /\ ctlr' = IF e \in DOMAIN IrqEnable
                  THEN [ctlr EXCEPT ![IrqEnable[e][1]] = @ \cup {IrqEnable[e][2]}]
                  ELSE ctlr
       /\ Commit(Ret(event_handler_add_task(m, e, t), t, 0), "running")
    /\ Ran(t)
    /\ UNCHANGED <<nextFree, panicked, owed, sentTo, repBuf>>

-----------------------------------------------------------------------------
(* Hardware interrupts (handle(), IRQ branch).  The VIC delivers the timer *)
(* or a UART; a UART's status holds the bits its control register enables, *)
(* and the decoder looks at RIS, then MIS (UART1 only), then TIS.  init()  *)
(* resets the UARTs' line registers but never their control registers, so  *)
(* an enable bit left by an earlier program (RTIEN, the receive timeout)   *)
(* may still be set: RxTimeoutIrq.                                         *)

UartStatus(u) ==
    (IF "RIEN" \in ctlr[u] THEN {"RIS"} ELSE {})
    \cup (IF RxTimeoutIrq THEN {"RTIS"} ELSE {})
    \cup (IF "MSIEN" \in ctlr[u] THEN {"MIS"} ELSE {})
    \cup (IF "TIEN" \in ctlr[u] THEN {"TIS"} ELSE {})

\* The decoded event, its return value, the enable bits the handler clears,
\* and whether it reports "handler got unexpected event type".  On that
\* path single_event keeps its initial value 0, the timer event.
Decode(u, s, d) ==
    CASE s = "RIS"             -> [event |-> IF u = 1 THEN UART1_RX ELSE UART2_RX, ret |-> d,
                                   clear |-> {}, panic |-> FALSE]
      [] s = "MIS" /\ u = 1    -> [event |-> UART1_MS, ret |-> d,
                                   clear |-> {"MSIEN"}, panic |-> FALSE]
      [] s = "TIS"             -> [event |-> IF u = 1 THEN UART1_TX ELSE UART2_TX, ret |-> 0,
                                   clear |-> {"TIEN"}, panic |-> FALSE]
      [] OTHER                 -> [event |-> TIMER, ret |-> 0, clear |-> {}, panic |-> TRUE]

\* Mutant: the tick is acknowledged but handle_event is not called.
timer_interrupt_no_wake(m, t) ==
    /\ Commit(scheduler_put(m, t), "running")
    /\ irq' = TIMER
    /\ UNCHANGED <<ctlr, panicked>>

\* The timer tick: wake every timer waiter with 0, then put back the
\* preempted task whatever it was doing.
timer_interrupt(m, t) ==
    /\ Commit(scheduler_put(event_handler_handle_event(m, TIMER, 0), t), "running")
    /\ irq' = TIMER
    /\ UNCHANGED <<ctlr, panicked>>

\* A UART interrupt.  On an unrecognised status kernel_panic clears the
\* bitmap first, and handle_event and scheduler_put then run as usual.
uart_interrupt(m, t) ==
    \E u \in Uarts : \E s \in UartStatus(u), d \in HwData :
        LET dec == Decode(u, s, d)
            m1  == IF dec.panic THEN [m EXCEPT !.bitmap = {}] ELSE m
        IN /\ ctlr' = [ctlr EXCEPT ![u] = @ \ dec.clear]
           /\ Commit(scheduler_put(event_handler_handle_event(m1, dec.event, dec.ret), t),
                     "running")
           /\ panicked' = (panicked \/ dec.panic)
           /\ irq' = IF dec.panic THEN UnknownIrq ELSE dec.event

Interrupt(m, t) ==
    /\ timer_interrupt(m, t) \/ uart_interrupt(m, t)
    /\ Ran(t)
    /\ UNCHANGED <<nextFree, owed, sentTo, repBuf>>

-----------------------------------------------------------------------------
(* The tasks.                                                              *)

\* The targets a task's program names in Reply: a task it has received
\* from, or an id that is no task; with ReplyAnyTarget, any created task.
ReplyTargets(t) ==
    IF ReplyAnyTarget THEN 0..(nextFree - 1)
    ELSE owed[t] \cup {k \in Slots : k >= nextFree}

\* A user task runs until it makes a system call or is interrupted.
UserTask(m, t) ==
    /\ UNCHANGED <<idleExit, idlePastLoop>>
    /\ \/ /\ irq' = NULL
          /\ \/ kernel_pass(m, t)
             \/ \E pr \in CreatePrios : kernel_create(m, t, pr)
             \/ kernel_mytid(m, t)
             \/ kernel_parenttid(m, t)
             \/ \E r \in Slots, len, rlen \in Lens : kernel_send(m, t, r, len, rlen)
             \/ \E len \in Lens : kernel_receive(m, t, len)
             \/ \E r \in ReplyTargets(t), len \in Lens : kernel_reply(m, t, r, len)
             \/ \E e \in AwaitArgs : kernel_await_event(m, t, e)
             \/ kernel_panic(m, t)
             \/ kernel_exit(m, t)
             \/ kernel_quit(m, t)
       \/ Interrupt(m, t)

\* update_idle_task sets is_exit from event_handler_empty before the idle
\* task is activated; idle_main spins until it reads is_exit = true, then
\* prints and Exits.  An interrupt may preempt it on either side of that
\* read; once past it, idle_main Exits when next activated, whatever
\* is_exit says by then.
IdleTask(m, t) ==
    LET ex   == event_handler_empty(m)
        past == idlePastLoop \/ ex
    IN /\ idleExit' = ex
       /\ \/ past /\ irq' = NULL /\ kernel_exit(m, t) /\ idlePastLoop' = TRUE
          \/ Interrupt(m, t) /\ idlePastLoop' \in {idlePastLoop, past}

-----------------------------------------------------------------------------
(* init() and the loop of main().                                          *)

UninitTD == [tid |-> NULL, priority |-> NULL, parent |-> NULL, state |-> NULL,
             ret |-> NULL, msgLen |-> NULL, repLen |-> NULL]

\* The task table is an uninitialised array on main's stack: an unused
\* slot's tid byte is garbage, which may happen to equal the slot index.
Init ==
    \E garbage \in [Slots -> IF UninitTidMatch THEN {FALSE, TRUE} ELSE {FALSE}] :
    LET m0 == [qs     |-> [q \in QueueIds |-> QueueInit],
               nxt    |-> [n \in Nodes |-> NULL],
               bitmap |-> {},
               td     |-> [k \in Slots |-> [UninitTD EXCEPT !.tid = IF garbage[k] THEN k ELSE NULL]],
               fault  |-> FALSE]
        m1 == task_descriptor_init(task_descriptor_init(m0, 0, UserMainPriority, NULL),
                                   IDLE_TASK_TID, IdlePriority, 0)
        m2 == scheduler_put(scheduler_put(m1, 0), IDLE_TASK_TID)
    IN /\ qs = m2.qs /\ nxt = m2.nxt /\ bitmap = m2.bitmap /\ td = m2.td
       /\ nextFree = 2
       /\ kstate = "running"
       /\ idleExit = FALSE
       /\ idlePastLoop = FALSE
       /\ ctlr = [u \in Uarts |-> {}]
       /\ panicked = FALSE
       /\ lastRun = NULL
       /\ irq = NULL
       /\ owed = [t \in Slots |-> {}]
       /\ sentTo = [t \in Slots |-> NULL]
       /\ inSend = [t \in Slots |-> FALSE]
       /\ repBuf = [t \in Slots |-> NULL]

\* One iteration: scheduler_get, activate, handle.
Dispatch ==
    /\ kstate = "running"
    /\ LET g == scheduler_get(mem)
           t == g.node[1]
       IN /\ g.node # NULL
          /\ lastRun' = t
          /\ \/ t = IDLE_TASK_TID /\ IdleTask(g.mem, t)
             \/ t # IDLE_TASK_TID /\ UserTask(g.mem, t)

\* scheduler_get found nothing: main() leaves its loop.
SchedulerEmptyHalt ==
    /\ kstate = "running"
    /\ LET g == scheduler_get(mem) IN
       /\ g.node = NULL
       /\ Commit([g.mem EXCEPT !.fault = g.fault], "empty")
    /\ lastRun' = NULL /\ irq' = NULL
    /\ UNCHANGED <<nextFree, idleExit, idlePastLoop, ctlr, panicked, userVars>>

\* main() has returned.
Terminated == kstate # "running" /\ UNCHANGED vars

Next == Dispatch \/ SchedulerEmptyHalt \/ Terminated

\* The timer can interrupt the task main() would activate next.
TimerEnabled == kstate = "running" /\ scheduler_get(mem).node # NULL

Spec == Init /\ [][Next]_vars
\* Weak fairness of the loop of main() (it never waits: Next is enabled
\* exactly while kstate = "running"), and of the timer steps of Dispatch
\* (those with irq' = TIMER), with TimerEnabled as their enabling
\* condition: the timer is always enabled in the VIC and keeps
\* interrupting whichever task runs, so it cannot stay able to fire
\* without firing.  Both are WF written out by hand.
FairSpec ==
    /\ Spec
    /\ []<>(kstate # "running") \/ []<><<Next>>_vars
    /\ []<>~TimerEnabled \/ []<><<irq' = TIMER>>_vars

-----------------------------------------------------------------------------
(* Properties.                                                             *)

Live == 0..(nextFree - 1)
TD == [tid : Slots \cup {NULL}, priority : (0..63) \cup {NULL}, parent : Slots \cup {NULL},
       state : States \cup {NULL}, ret : Int \cup {NULL},
       msgLen : Lens \cup {NULL}, repLen : Lens \cup {NULL}]

TypeOK ==
    /\ qs \in [QueueIds -> [front : Nodes \cup {NULL}, back : Nodes \cup {NULL}, elements : Nat]]
    /\ nxt \in [Nodes -> Nodes \cup {NULL}]
    /\ bitmap \subseteq ReadyPrios
    /\ td \in [Slots -> TD]
    /\ nextFree \in 2..MaxTasks
    /\ kstate \in {"running", "empty", "quit", "crashed"}
    /\ idleExit \in BOOLEAN /\ idlePastLoop \in BOOLEAN /\ panicked \in BOOLEAN
    /\ ctlr \in [Uarts -> SUBSET {"RIEN", "MSIEN", "TIEN"}]
    /\ lastRun \in Slots \cup {NULL}
    /\ irq \in {NULL, UnknownIrq} \cup 0..(MaxEvents - 1)
    /\ owed \in [Slots -> SUBSET Slots] /\ sentTo \in [Slots -> Slots \cup {NULL}]
    /\ inSend \in [Slots -> BOOLEAN] /\ repBuf \in [Slots -> Slots \cup {NULL}]

\* The abstract contents of queue q, and the number of times node n is
\* linked into some queue.
Contents(q) == Elems(mem, q)
OccIn(n) ==
    MapThenSumSet(LAMBDA q : Cardinality({i \in DOMAIN Contents(q) : Contents(q)[i] = n}),
                  {q \in QueueIds : qs[q].elements > 0})
InQueue(n, q) == \E i \in DOMAIN Contents(q) : Contents(q)[i] = n

\* Every queue's links agree with its header, and every live task sits in
\* exactly the queue its state says: READY in the ready queue of its
\* priority, RECEIVE_BLOCKED (waiting to be received) in one send queue,
\* EVENT_BLOCKED in one event queue, and in no queue otherwise.  This is
\* what kernel_send, kernel_receive, kernel_reply, kernel_create and the
\* event handler must preserve between them, each moving a task's state and
\* its queue membership together.  (While the kernel runs; after a panic the
\* panicking task is deliberately left unqueued.)
StateMatchesQueues ==
    kstate = "running" /\ ~panicked =>
    /\ \A q \in QueueIds : WellFormed(mem, q)
    /\ \A t \in Live :
         LET s == td[t].state IN
         /\ OccIn(ReadyNode(t)) = (IF s = "READY" THEN 1 ELSE 0)
         /\ s = "READY" => InQueue(ReadyNode(t), ReadyQ(td[t].priority))
         /\ OccIn(SendNode(t)) = (IF s = "RECEIVE_BLOCKED" THEN 1 ELSE 0)
         /\ OccIn(AwaitNode(t)) = (IF s = "EVENT_BLOCKED" THEN 1 ELSE 0)

\* Bit p of the ready bitmap is set exactly when ready queue p is non-empty
\* (scheduler.h), whatever sequence of scheduler_put / scheduler_get calls
\* the handlers make.
BitmapMatchesQueues ==
    kstate = "running" /\ ~panicked =>
    \A p \in ReadyPrios : p \in bitmap <=> ~queue_empty(mem, ReadyQ(p))

\* The task at the front of the lowest-numbered non-empty ready queue, read
\* from the queues' contents without the bitmap.
HighestReady ==
    LET ps == {p \in ReadyPrios : Contents(ReadyQ(p)) # <<>>} IN
    IF ps = {} THEN NULL ELSE Head(Contents(ReadyQ(Min(ps))))[1]

\* While some task is ready, each iteration of main() activates the first
\* of the highest-priority ready tasks (scheduler_get, bitmap_leadingzeroes
\* and the bitmap kept by every put and get): strict priority, FIFO within
\* a priority, and no halt while a task is ready.  (After a panic the
\* bitmap is cleared on purpose.)
SchedulerPicksHighest ==
    [][kstate = "running" /\ ~panicked /\ HighestReady # NULL => lastRun' = HighestReady]_vars

\* Send/Receive/Reply round trip.  A task whose Send was accepted is either
\* still in its target's send queue, or has been received by its target
\* (the target was told this sender and owes it a reply), or is ready with
\* the target's reply in its buffer and return value 0.  Conversely a task
\* that a receiver was told about is waiting for that receiver's reply.
SendReplyRoundTrip ==
    /\ \A t \in Live : inSend[t] =>
         LET r == sentTo[t] IN
         \/ td[t].state = "RECEIVE_BLOCKED" /\ InQueue(SendNode(t), SendQ(r))
         \/ td[t].state = "REPLY_BLOCKED" /\ t \in owed[r]
         \/ td[t].state = "READY" /\ repBuf[t] = r /\ td[t].ret = 0
    /\ \A r, t \in Live : t \in owed[r] => td[t].state = "REPLY_BLOCKED" /\ sentTo[t] = r

\* main() leaves its loop because the scheduler is empty only when no task
\* is ready and none waits for an event that could still wake it (unless a
\* panic stopped scheduling on purpose).
HaltOnlyWhenQuiescent ==
    kstate = "empty" /\ ~panicked =>
    /\ \A p \in ReadyPrios : queue_empty(mem, ReadyQ(p))
    /\ event_handler_empty(mem)

\* The tasks woken by an interrupt are exactly the tasks waiting for the
\* event the hardware raised: all of them (broadcast) and no others; an
\* interrupt whose cause the decoder does not recognise wakes nobody.
Waiting(e) == {t \in Slots : InQueue(AwaitNode(t), AwaitQ(e))}
EventWakeMatchesCause ==
    [][irq' # NULL =>
        {t \in Slots : td[t].state = "EVENT_BLOCKED" /\ td'[t].state # "EVENT_BLOCKED"}
          = IF irq' = UnknownIrq THEN {} ELSE Waiting(irq')]_vars

\* A task waiting for the timer is eventually woken, unless main() stops.
TimerWaitersWoken ==
    \A t \in Slots : InQueue(AwaitNode(t), AwaitQ(TIMER)) ~> (td[t].state = "READY" \/ kstate # "running")

\* Send fails with "invalid target id" when the target does not correspond
\* to a live task (spec, 4.3): a Send that kernel_send accepts, queueing
\* the sender or handing its message over, names a target that has not
\* exited.
SendTargetsLive ==
    [][\A t \in Slots : ~inSend[t] /\ inSend'[t] => td[sentTo'[t]].state # "EXITED"]_vars

=============================================================================
