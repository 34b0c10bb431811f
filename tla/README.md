# TLA+ models of the armv4 microkernel

These modules model the kernel in `src/src/main.c` and its parts (the scheduler, the intrusive queues, the event handler and the task descriptors), the ring buffer, the string routines of `string.c`, and the three user-level servers built on the kernel's IPC: the name server, the clock server and the I/O server. TLC checks them for the properties the design promises (spec.md §4 and §8, the comments in `name_server.h`, `clock_server.h` and `io_server.h`).

## The system

The kernel runs on one core with interrupts off. `main()` loops: `scheduler_get` → `activate` → `handle`.
- `activate` runs the chosen task until it makes a system call (SWI) or a hardware interrupt (IRQ) preempts it.
- For a system call, `handle` runs one of the handlers:
  - `kernel_create`, `kernel_pass`, `kernel_mytid`, `kernel_parenttid`;
  - IPC: `kernel_send`, `kernel_receive`, `kernel_reply`;
  - `kernel_await_event`, `kernel_panic`, Exit, Quit.
- For an interrupt, `handle` decodes the timer or a UART and wakes that event's waiters with `event_handler_handle_event`. It then puts the preempted task back.

Kernel state consists of:
- the task table;
- 64 ready queues and a 64-bit bitmap;
- 16 event wait queues;
- each task's send queue.

All the queues are *intrusive*: each task descriptor embeds three link nodes (`ready_node`, `send_node`, `await_node`). The same node can therefore be linked twice, and the queue code does not notice.

Task 1 is the idle task, at priority 28. It spins until `update_idle_task` sets `is_exit` to "no task waits for any event", and then it Exits. The loop ends when the scheduler is empty after an Exit, on Quit, or when `scheduler_get` returns NULL.

## Modules

| Module | Models | State / operators |
|---|---|---|
| `Queue` | `queue.c`, `queue.h` | Operators over a memory record `m` with `qs` (queue headers `[front, back, elements]`) and `nxt` (each node's `next`). `queue_put`, `queue_put_front`, `queue_get`, `queue_mtf` do exactly what the C does to the links, including when a node is already linked. `Elems` reads a queue as a sequence by following `elements` links from `front`. |
| `Scheduler` | `scheduler.c` | `bitmap` is the set of set bit positions. `bitmap_leadingzeroes` is translated step by step (five halvings from `count = 1` and the final correction). `scheduler_init`, `scheduler_put` and `scheduler_get` are as in the C. |
| `PriorityReady` | `scheduler.h` | The abstract specification the scheduler promises: one FIFO of ready tasks per priority level, `Get` serving the lowest non-empty level or returning NULL, `Empty` true exactly when no task is ready. |
| `MCScheduler` | `scheduler.c` | Five tasks (levels 0, 5, 33, 33, 62) driven by any sequence of put/get/empty calls after `scheduler_init` on a bitmap word holding garbage, checked through `MCAlgorithms`; `RefinesPriorityReady` is `PriorityReady!Spec` under the mapping `ready[l] <- ` the tasks of the chain of ready queue `l`. |
| `EventHandler` | `event_handler.c` | `event_handler_add_task`. `event_handler_handle_event` is the draining loop (`DrainAwaitQ`, RECURSIVE). `event_handler_empty`. |
| `Kernel` | `main.c`, `task_descriptor.c` | The variables are listed below the table. |
| `MCKernel` | — | Constant values for the cfgs. |
| `MCKernelPrograms` | — | Two instances of `Kernel` with different program constants (error paths; UART waiters) in one state space; `prog`, fixed at the start, says which instance steps. |
| `CString` | `string.c` | `strncpy`, `strncmp`, `memchr`, `memcmp`, `memset`, `memcpy` as operators on byte sequences (C's `a[i]` is `a[i+1]`); the loops are RECURSIVE operators that stop where the C loops break. |
| `MCAlgorithms` | — | The sequential routines against reference definitions: `bitmap_leadingzeroes` against `Min` for every bitmap with 1–3 bits set, the string routines for every pair of 3-byte arrays over bytes {0, 1, 200}, and the `MCClockQueue` machine. `kind` says which one a behaviour exercises. |
| `RingBuffer` | `ringbuffer.c` | A `ringbuffer_t` is a record `[read_index, write_index, size, buf]`; each operation returns the new record and its result. `putn`'s free-space test is size_t arithmetic (`SizeTLess`); its copy loop is given in closed form (`PutnLoop`). `RingContents` reads the buffer as a sequence. |
| `BoundedFifo` | — | The abstract specification the ring buffer promises: a FIFO of capacity `Cap` with `Put`, all-or-nothing `PutN`, and `Get`. |
| `MCRingBuffer` | — | A caller that makes any sequence of put/putn/get calls, checked through `MCAlgorithms`; `RefinesBoundedFifo` is `BoundedFifo!Spec` under the mapping `q <- RingContents(rb)`, `Cap <- Size - 1`. |
| `NodeFifo` | — | The abstract specification the intrusive queue promises: per queue a FIFO of nodes with `Put`, `PutFront` (of a node in no queue), `Get`, `Peek` and `Size`. |
| `MCQueue` | `queue.c` | Two queues sharing four nodes, driven by any sequence of put/put_front/get/peek/size calls, checked through `MCAlgorithms`; `RefinesNodeFifo` is `NodeFifo!Spec` under the mapping `fifo[q] <- ` the NULL-terminated chain of next links from `front`. |
| `IOServer` | `io_server.c` (COM2 path) | See "The servers" below. |
| `MCIOServer` | — | Task sets for the cfgs. |
| `ClockQueue` | `clock_server.c` 144–164 | The DELAYUNTIL insertion into `blocked`: the walk (`InsertAfter`, RECURSIVE) and the hand-made splice, over `Queue` memory. |
| `ClockServer` | `clock_server.c` | See "The servers" below. |
| `MCClockServer` | — | Task sets and `ClockView`, the state TLC tells apart (below). |
| `MCClockQueue` | — | `blocked` and `free_list` alone with four entries: any sequence of insertions and releases, against a reference list built with `SequencesExt!InsertAt`. Checked through `MCAlgorithms`. |
| `NameServer` | `name_server.c` | See "The servers" below. |
| `MCNameServer` | — | Task ids and names for the cfg. |

`Kernel`'s variables:
- kernel memory: `qs`, `nxt`, `bitmap`, `td`;
- `nextFree` (`next_free_td`);
- `kstate`: running, or why `main()` stopped ("empty", "quit", or "crashed" on a NULL dereference);
- the idle task's `is_exit` flag (`idleExit`) and whether `idle_main` has left its loop (`idlePastLoop`);
- the UART control-register enable bits (`ctlr`);
- `panicked`;
- ghost variables for the properties:
  - `lastRun`: the task activated by the step;
  - `irq`: the event raised;
  - the user programs' view of IPC: `owed`, `sentTo`, `inSend`, `repBuf`.

One step of `Next` is one iteration of `main()`, which is atomic because the kernel runs with interrupts off:
- `Dispatch` is `scheduler_get`, then what the task does (`UserTask` or `IdleTask`), then the whole handler.
- `SchedulerEmptyHalt` is `scheduler_get` returning NULL.
- `Terminated` is `main()` having returned.

What a task does:
- A user task's program is arbitrary. It makes any system call with arguments from small constant sets, or it is interrupted.
- The idle task follows `idle_main`, including a preemption on either side of its read of `is_exit`.

Each handler composes the pure operators of the lower modules, exactly in the order of the C calls. `Commit` writes the resulting memory back. A queue_get of a NULL front under a non-zero count is C's NULL dereference and ends in `kstate = "crashed"`.

### Modelling choices

The model keeps the control flow of the code and abstracts its data:
- Message contents and UART data are single values.
- Message and reply lengths come from `Lens`.
- A task's entry point, stack pointer and saved registers are omitted; they belong to the context switch.

Undefined behaviour is modelled as a choice of outcomes:
- **`rep_len` read on Reply:** it is garbage if the target never sent. The model chooses among `Lens` (`RepLenRead`).
- **Unused table slot's `tid` byte:** `tds[]` is an uninitialised stack array. With `UninitTidMatch` the byte may equal the slot index.
- **UART control register at boot:** `init()` never resets it. With `RxTimeoutIrq` the receive-timeout enable may have been left set by an earlier program.

The constants `CreateWhenFull` and `ReplyAnyTarget` separate disciplined programs from programs that misuse the API. `kernel_errors` turns on Create on a full table; the other runs use disciplined programs, so that they check the kernel on its intended path. `ReplyAnyTarget`, `UninitTidMatch` and `RxTimeoutIrq` are FALSE in every run. Each of them turns on a hazard of PROJECT.json: a Reply to a task that is not reply-blocked, a Send to a never-created slot, and a receive-timeout interrupt. With `ReplyAnyTarget` TLC finds `StateMatchesQueues` violated. With `RxTimeoutIrq` it finds `EventWakeMatchesCause` violated.

## The servers

The servers are user tasks that loop on `Receive`, handle one message and `Reply`. The three models abstract the kernel's IPC the same way:
- `sendq` is the server's send queue, in arrival order; `Send(t, m)` appends `t` and stores `m` in `msg[t]`.
- `pc[t]` is where task `t` is: "ready", "send_wait" (queued), "reply_wait" (received, not yet replied), "await" (in AwaitEvent), "woken", "replied", "exited".
- One iteration of the server's loop (Receive, the handler, its Replies) is one step. The server touches only its own stack, so no other task can observe a state in the middle of it.
- `panic()` stops every task (`srv = "panicked"`, `Running` false), as `kernel_panic` clears the ready set.

**I/O server** (`IOServer`). State: `rb_in`, `rb_out` (RingBuffer records of `IO_SERVER_BUFFER_SIZE`), `tx_ready`, `client_ready`, `client_tid`, `srv` and the shutdown loop's `notifier_exit_count`; the kernel's RX interrupt enable `rien`. Actions:
- the server: `HandleClientRead`, `HandleClientWrite`, `HandleNotifRx`, `HandleNotifTx`, `HandleExit`, `ShutdownReceive` (the `case` arms of `io_server_main` and its shutdown loop), with the `panic` branches;
- clients: `Getc`, `Putstr` (Putc is Putstr of one byte), `io_server_exit`;
- the rx notifier (`RxNotifier`: AwaitEvent, then Send NOTIF_RX) and the COM2 tx notifier (`TxNotifier`: one AwaitEvent per byte of the reply, then Send NOTIF_TX);
- the kernel's UART2 interrupts: `RxInterrupt` hands the byte to the notifier if it waits and otherwise drops it (main.c:428–443); `TxInterrupt` wakes the tx notifier.

Bytes are numbered: writers write 1, 2, 3, … and the UART receives 1, 2, 3, …, so loss, duplication and reordering show as sequences. Ghost variables: `written`, `txWire` (what reached the UART), `rxWire`, `rxGot` (what the notifier took), `delivered` (what Getc returned).

**Clock server** (`ClockServer`). State: `ticks`, the `blocked` and `free_list` queues as `Queue` memory `cm` over `entries[]`, each entry's deadline `eticks` and `etid`, `srv`, `exiter_tid`. Actions: `HandleTick`, `HandleTime`, `HandleDelay` (falling through to `DelayUntilCase`), `HandleDelayUntil`, `HandleExit`, `ShutdownReceive`; the wrappers `CallTime`, `CallDelay`, `CallDelayUntil`, `clock_server_exit`, `Return`; `NotifierStep`; and `TimerInterrupt`, which wakes the notifier if it waits and otherwise (with `TickLoss`) loses the tick, as the kernel's timer interrupt does. Ghosts: `callTicks` (the count when a Delay was sent) and `hwTicks` (interrupts so far).

**Name server** (`NameServer`). State: the map's queue `nm` over `nodes[]` (as `Queue` memory), each node's `ename` and `etid` (`node_data[]`), and `srv`. Names are byte sequences: `Msg` copies the caller's name into the message with `strncpy`, `name_map_insert` copies it into `nodes[queue_size]` and pushes that node at the front, and `name_map_find` walks from the front and stops at the first node whose name `strncmp` finds equal. Actions: `ServerStep` (Receive, then `HandleReg`, `HandleWho` or `HandleExit`, then Reply); the wrappers `RegisterAs`, `WhoIs` and `name_server_exit`; `Retry` (WhoIs sends again on a reply of 1) and `Return`. Ghosts: `arg` (the name a call was given), `latest` (the tid of the last REG handled for each name) and `regs` (RegisterAs calls, bounded by the constant `MaxRegs`). `HandleReg` is followed only while `nodes[queue_size]` lies inside `nodes[]`. The names run sets `MaxRegs` to the map's size, so that bound is never met there, and `RegistrationsFit` is about the state where it would be. The client tids avoid 1 and 2: tid 1 is the idle task and tid 2 the name server, and neither calls the wrappers. So WhoIs's use of 1 for "not registered" cannot be confused with a registered tid.

`MCClockServer` gives TLC a `VIEW`, `ClockView`, that leaves out values no later step reads: the deadline and tid of a free entry (both are written before the entry is inserted again), `blocked.back` (never read), the front and back of an empty queue, and `callTicks` of a client whose last call is not a Delay. States that differ only there have the same future, so the view loses no behaviour; it cuts the clock run from over 30 million to 6 million states.

## Runs

| Run | cfg | Result | What it shows |
|---|---|---|---|
| kernel_ipc | `MCKernel_ipc.cfg` | pass, 106,212 states | 3 slots, priorities {0,1} (a tie with the first task), one length, and AwaitEvent on the timer, UART1 TX and an invalid id, under `FairSpec`. It checks the properties listed below the table, and `TimerWaitersWoken`. |
| kernel_errors | `MCKernelPrograms.cfg` | pass, 308,778 states | Two program sets, one `Kernel` instance each. The error paths (priority 64, Create on a full table, mismatched message and reply lengths, waiting for UART1 TX): the bitmap still tracks the queues and the scheduler still serves the highest ready task. The UART programs (waiting for UART1 modem status and UART2 receive): an interrupt wakes exactly its waiters. |
| algorithms | `MCAlgorithms.cfg` | pass, 92,781 states | `LeadingZeroesIsLowestBit`, `CStringMatchesReference`, `BlockedIsStableSorted`, `RefinesBoundedFifo` (the ring buffer, kind `"ringbuffer"`), `RefinesNodeFifo` (the intrusive queue, kind `"queue"`) and `RefinesPriorityReady` (the scheduler, kind `"scheduler"`). |
| rx_mismatch | `MCKernel_rx_mismatch.cfg` | violation | Receive with the wrong length strands the queued sender (main.c:231). |
| idle_exit | `MCKernel_idle_exit.cfg` | violation | Idle exits while a lower-priority task is ready, and `main()` later stops with a timer waiter (main.c:320). |
| send_exited | `MCKernel_send_exited.cfg` | violation | `SendTargetsLive`: a Send to a task that has exited is accepted and the sender is queued for good (main.c:194). |
| io | `MCIOServer.cfg` | pass, 547,408 states | `OutputInOrder`, `InputInOrder`, `ServerTracksWaiters` and, under `FairSpec`, `OutputDrains`. |
| io_tx_shutdown | `MCIOServer_tx_shutdown.cfg` | violation | `TxNotifierShutsDown`: a tx notifier parked by `tx_ready` when EXIT arrives never sends again, so the shutdown loop and `io_server_exit` hang (io_server.c:282–303). |
| clock | `MCClockServer.cfg` | pass, 6,021,695 states | `BlockedMatchesWaiters` and `DelayNeverEarly`, with an exiter and lost ticks. |
| clock_live | `MCClockServer_live.cfg` | pass, 353,706 states | `DelayReturns` under `FairSpec`. |
| names | `MCNameServer.cfg` | pass, 269,648 states | `MapAgreesWithRegistrations` and, under `FairSpec`, `WhoIsReturns`, with two clients, an exiter, two names and four registrations. |
| names_overrun | `MCNameServer_overrun.cfg` | violation | `RegistrationsFit`: one task registers the same name three times on a map of two nodes, and the third REG has no node left (name_server.c:101). |

kernel_ipc checks these invariants and action properties:
- `StateMatchesQueues`: every live task is linked exactly in the queue its state names.
- `BitmapMatchesQueues`.
- `SendReplyRoundTrip`: an accepted Send ends queued, owed a reply, or ready with the reply.
- `HaltOnlyWhenQuiescent`.
- `SchedulerPicksHighest`: strict priority and FIFO, with no halt while a task is ready.
- `EventWakeMatchesCause`: an interrupt wakes exactly the waiters of the raised event.
- `TimerWaitersWoken` (liveness).

The server properties:
- `RefinesNodeFifo`: the links `queue_put`, `queue_put_front` and `queue_get` write implement a FIFO of nodes with push-front. The NULL-terminated chain from `front` (the walk `name_map_find` and the clock server make) holds the queued nodes in order, get and peek return its head, and the count is its length. This holds across nodes moving between queues, and although `queue_get` leaves `back` pointing at a removed node.
- `RefinesBoundedFifo`: every put/putn/get on the ring buffer is a step of a bounded FIFO: putn is all-or-nothing, put and putn refuse exactly when the FIFO is full, get returns the oldest byte.
- `OutputInOrder`: the UART's bytes, then those the tx notifier holds, then `rb_out`, then the queued Putstr messages, are exactly 1..`written`.
- `InputInOrder`: `delivered`, then `rb_in`, then the byte in flight, are exactly what the notifier took.
- `ServerTracksWaiters`: `tx_ready` iff the tx notifier is reply-blocked, `client_ready`/`client_tid` iff a reader is, and no waiter is left beside bytes it could be given.
- `OutputDrains`: every written byte is eventually transmitted while the server serves.
- `BlockedMatchesWaiters`: `blocked` is sorted, counted right, and holds exactly the reply-blocked delayed clients; `blocked` and `free_list` hold every entry once.
- `DelayNeverEarly` (action property): a Delay(n) is released at least n ticks after its call, a DelayUntil(t) only once ticks > t.
- `BlockedIsStableSorted`: after any sequence of insertions and releases, `blocked` is the stable sorted list.
- `DelayReturns`: every delayed client is eventually released.
- `LeadingZeroesIsLowestBit`: `bitmap_leadingzeroes` returns the lowest set bit.
- `CStringMatchesReference`: `strncmp` orders the C strings in the first n bytes as unsigned bytes. `strncpy` copies the string and pads with NULs. `memchr`, `memcmp`, `memcpy` and `memset` do what `string.h` says. No routine touches a byte beyond n.
- `MapAgreesWithRegistrations`: for every name, the lookup WHO would make finds the last registration the server handled, and nothing before the first. This covers re-registrations by another task and a name that fills the whole field next to its prefix.
- `WhoIsReturns`: a WhoIs of a registered name eventually returns, unless the server has exited.

Every property of a passing run has a mutant in PROJECT.json: a plausible bug in a mapped definition that TLC then catches. In the kernel:
- a missing final correction in `bitmap_leadingzeroes`;
- `scheduler_get` never clearing a bit;
- `if` in place of `while` in `handle_event`;
- `event_handler_empty` starting at event 1;
- a Reply that does not wake its target;
- a Receive that leaves the sender's state alone;
- `next_free_td` advanced before the full check;
- a panic that only prints;
- a timer IRQ that never calls `handle_event`.

In the servers:
- `putn` without the spare slot;
- a write handler that hands the tx notifier the message instead of draining `rb_out`;
- a write handler that leaves `tx_ready` set;
- an RX handler that replies to the reader without taking the byte out of `rb_in`;
- a TX handler that never sets `tx_ready`;
- a tick that releases at `>=`;
- a tick that does not return the entry to `free_list`;
- a walk that compares the current entry's deadline;
- a splice that does not count the new entry;
- a `strncmp` that does not stop at the terminator;
- a name map insertion at the back instead of the front;
- a `name_map_find` that looks only at the front node.

### Bounds

**Task table.** Three slots: `user_main` (0), idle (1) and one created task. That is enough for every two-party interaction:
- a sender and a receiver in either order;
- two waiters of the same event;
- a task at, above or below the creator's priority.

Four slots take over four minutes per run and add only longer chains of the same interactions.

**Ready queues.** All 64 exist, as in the code, so a wrong bitmap index reaches a real, empty queue rather than a modelling error.

**Argument sets.** They are chosen so that every branch of every handler is taken by some passing run:
- `Lens` is {1} or {1,2}, for match and mismatch;
- the event sets include one id outside 0..15.

**Scheduler.** Five tasks at levels 0, 5, 33, 33 and 62: the fast path of `bitmap_leadingzeroes` (bit 0), a level found in each half of the word, two tasks sharing a level so FIFO order and the bit kept while one of them is still queued are exercised, and a level found only after all five halvings. The mapping reads only these levels; `scheduler_put` indexes the queue by the task's own priority, so no other queue is ever written.

**Ring buffer.** Four slots (capacity 3) and putn of up to four bytes: every wrap of both indices, a putn that fits exactly, one byte too many, and one longer than the whole buffer.

**Intrusive queue.** Two queues and four nodes. One queue can hold three nodes while the other holds the fourth. Every node can be put at either end of either queue, taken off and moved. Each of put, put_front and get then meets an empty queue, a one-node queue and a longer one, and a stale `back` after a queue was emptied.

**I/O server.** A buffer of 3 (capacity 2), messages of up to 2 bytes, 3 received and 3 written bytes. That is enough to fill `rb_out` and `rb_in` to the panic, to split a write across two tx replies, and to have a byte arrive while a reader waits, while none waits, and while the notifier is busy.

**Clock server.** Two clients and two entries: two waiters with equal or different deadlines, in either order. Delay args {0,1} and DelayUntil args {0,1,2} cover the error, the immediate reply (deadline already past) and the insertion at the front and after an entry. `Horizon` bounds the timer interrupts (6). A call is made only if it can be released before the horizon, one tick per earlier waiter (`InHorizon`), so `DelayReturns` is not broken by the timer stopping. The walk of more than one entry needs three waiters, which the whole-server model cannot afford; `MCClockQueue` checks the list alone with four entries and deadlines 1..3.

**Name server.** Two clients (tids 0 and 3), an exiter (tid 4), and two names. `NAME_SERVER_MAX_NAME_LEN` is scaled to 2 bytes and the names are "a" and "ab". "ab" fills the field with no terminator, as "clock_server" fills the real 12 bytes, and "a" is its prefix. Four registrations let each name be registered twice, by either task, in any order with lookups.

**String routines.** Arrays of three bytes over {0, 1, 200}, every count 0..3, and `ch` given as 1 and as 456 (whose low byte is 200). 200 is a byte that a signed `char` would make negative.

### Fairness

The kernel's `FairSpec` assumes two kinds of weak fairness:
- **The loop of `main()`.** It never waits, so Next is enabled exactly while `kstate = "running"`.
- **The timer steps.** The 10 ms Timer3 is enabled in the VIC by `setup_vectored_interrupts` and keeps preempting whichever task runs, so a timer interrupt cannot stay possible forever without happening.

Both are written out as `[]<>~Enabled \/ []<><<A>>_vars`, with the enabling condition given as a state predicate. TLC evaluates `ENABLED` of the full dispatch action too slowly.

The servers' `FairSpec`s use `WF_vars` on the server step, the notifiers and the interrupts:
- The server and the notifiers block in every iteration, and the clients block in every call, so no task keeps a ready one off the CPU forever.
- The tx notifier sets TIEN in AwaitEvent and the transmitter then has room; Timer3 keeps firing.
- No fairness is assumed for client calls (a client may stop calling), for received bytes, or for `io_server_exit`.
- In the name server, a task inside WhoIs keeps running its own loop (`ClientStep`: retry or return).
- `clock_live` runs with `TickLoss = FALSE`: the notifier is back in AwaitEvent before the next 10 ms tick. Otherwise an adversary could lose every tick up to the horizon.

## Known defects shown by the violation runs

- **rx_mismatch** (main.c:231): `kernel_receive` dequeues the sender before it compares lengths, and on a mismatch never re-queues it.
- **idle_exit** (main.c:320): `is_exit` only asks whether a task waits for an event, not whether lower-priority tasks are ready.
- **send_exited** (main.c:194): `kernel_send` validates the target only by `tds[tid].tid == tid`, which an exited task still satisfies. The spec says Send fails with "invalid target id" when the target is not live. TLC's trace: `user_main` creates task 2, task 2 exits, `user_main` sends to 2 and stays RECEIVE_BLOCKED on a queue nobody receives from. The name server's `name_server_exit` strands its callers the same way.
- **names_overrun** (name_server.c:101): `name_map_insert` takes a new node `nodes[queue_size]` for every REG, a re-registration included. So `NAME_SERVER_MAX_NAMES` RegisterAs calls of a single name fill the map, and the next one writes past `nodes[]`. name_server.h says a registration overwrites the previous one.
- **io_tx_shutdown** (io_server.c:282–303): the shutdown loop waits for a message from the tx notifier, which may be reply-blocked on the server itself.

PROJECT.json lists further hazards that the model reaches without a run of their own. Each has a note saying why:
- a second Getc overwriting `client_tid`;
- an RX byte dropped while the notifier is busy;
- `io_server_exit` never returning;
- a tick lost while the clock notifier is busy;
- clock clients stranded by shutdown;
- name-server callers stranded by `name_server_exit`.

One more defect turned up while modelling the clock server and has no run, because there is no run slot left for it. `Delay` and `DelayUntil` (clock_server.c:45 and :72) test `msg.type == CLOCK_SERVER_MSG_TYPE_ERROR` on the request they sent instead of on `rep`. So they return 0 even when the server replies ERROR for a delay of 0 or less, where clock_server.h promises -2. `ClockServer.Return` does not model the wrappers' return values. Every property there is about when a caller is released, which the wrong return value does not change.

## Not modelled (and why)

- **`activate`, `kernel_entry`, `irq_entry`:** register-level context switching in inline assembly. The model treats "run the task until SWI or IRQ" as one nondeterministic choice.
- **Idle-time metrics and `bwprintf`:** output only.
- **The SWI default case (unknown system-call code) and the IRQ default case (unexpected VIC vector):** the wrappers in `sys_call.c` and the three VIC vectors never produce them.
- **`sys_call.c`:** argument marshalling only. The servers' `Send`, `Reply1` and `Panic` model the wrappers' effect.
- **`time.c`:** `clock()` reads Timer4's low and high registers in two loads. Its callers keep only the low 32 bits, so a carry between the loads cannot change what they see.
- **`queue_mtf`:** it is modelled in `Queue`, but nothing calls it. Its only call, in `name_map_find`, is commented out as broken.
- **The I/O server's COM1 path:** the CTS notifier and the CTS handshake in the tx notifier (io_server.c:63–98, 141–151). Also the start-up handshake: the COM number, `RegisterAs`/`WhoIs` and `io_server_start`. Whether COM1 output keeps flowing depends on the train's CTS line against the CTS notifier's timing: the notifier re-reads the flag register at line 86 instead of using the value sampled at the interrupt. Checking that needs a model of the train and a run of its own, so it is listed as hazards instead: the re-read flag (io_server.c:86), the `Time()` read before the wait and used after it (io_server.c:87), and the notifier's loop that never ends (io_server.c:94).
- **The servers over the kernel model:** the servers use an abstract IPC (a FIFO send queue, atomic loop iterations) rather than the `Kernel` module. Composing them would multiply two state spaces that are each near TLC's limit.

## Plan

1. *(Done.)* Core kernel: the queue, scheduler, event handler and all handlers.
2. *(Done.)* Ring buffer with a refinement to a bounded FIFO; the I/O server and the clock server over an abstract IPC.
3. *(Done.)* Name server over the map on the intrusive queue, and the string routines it uses.
4. *(Done.)* The intrusive queue refines `NodeFifo` (`MCQueue`). `queue_mtf` is left out of it, since nothing calls it.
5. *(Done.)* The scheduler refines `PriorityReady` (`MCScheduler`).
6. *(Not done.)* A liveness property for the accepted but never-raised event ids (UART RT events). Adding any event id to a kernel run pushes it past its time budget.
