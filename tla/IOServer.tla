------------------------------ MODULE IOServer ------------------------------
(***************************************************************************)
(* The UART I/O server of io_server.c for COM2: io_server_main with its    *)
(* two ring buffers, the rx and tx notifiers, and the clients Getc,        *)
(* Putc/Putstr and io_server_exit.                                         *)
(*                                                                         *)
(* Kernel IPC is abstracted to what these tasks observe of it.  A Send     *)
(* appends the sender to the server's send queue sendq (the kernel serves  *)
(* senders in arrival order); the server's Receive takes the head, which   *)
(* is then reply-blocked until a Reply makes it ready with the reply in    *)
(* rep.  One iteration of the server's receive loop is one step: between   *)
(* Receive and its Replies the server touches only its own stack, and      *)
(* what other tasks do meanwhile (a Send, an interrupt) only appends to    *)
(* sendq or changes their own state.                                       *)
(*                                                                         *)
(* Bytes are numbered in the order they are written or arrive on the       *)
(* wire, so that order and loss show in the sequences of numbers.          *)
(***************************************************************************)
EXTENDS RingBuffer, SequencesExt

CONSTANTS
    Readers,     \* tasks calling Getc in a loop
    Writers,     \* tasks calling Putc / Putstr
    Exiters,     \* tasks calling io_server_exit once
    TxN, RxN,    \* the tx and rx notifiers
    Tid0,        \* tid 0 (user_main), the initial value of client_tid
    BufferSize,  \* IO_SERVER_BUFFER_SIZE
    MaxDataLen,  \* IO_SERVER_MSG_MAX_DATA_LEN
    MaxRx,       \* bound on the bytes arriving at the UART
    MaxWrite,    \* bound on the bytes the writers send
    Junk         \* the uninitialised contents of in_buf and out_buf

Clients == Readers \cup Writers \cup Exiters
Tasks == Clients \cup {TxN, RxN}

VARIABLES
    rb_in, rb_out, tx_ready, client_ready, client_tid,
    srv,                  \* "serve", "shutdown", "exited" or "panicked"
    notifier_exit_count,
    rien,                 \* the UART's receive interrupt enable bit
    sendq, pc, msg, rep,
    rxWire,               \* bytes that arrived at the UART
    rxGot,                \* bytes the rx notifier took, in order
    delivered,            \* bytes replied to Getc callers, in order
    written,              \* bytes the writers handed to Putc/Putstr
    txWire                \* bytes the tx notifier wrote to the UART

serverVars == <<rb_in, rb_out, tx_ready, client_ready, client_tid, srv,
                notifier_exit_count>>
ipcVars == <<sendq, pc, msg, rep>>
ghostVars == <<rxWire, rxGot, delivered, written, txWire>>
vars == <<serverVars, rien, ipcVars, ghostVars>>

\* io_server_msg_t: type, len and the data bytes in use.
Msg(type, data) == [type |-> type, len |-> Len(data), data |-> data]
NoMsg == Msg("NONE", <<>>)

Init ==
    /\ rb_in = ringbuffer_init([i \in 0..BufferSize-1 |-> Junk], BufferSize)
    /\ rb_out = ringbuffer_init([i \in 0..BufferSize-1 |-> Junk], BufferSize)
    /\ tx_ready = FALSE /\ client_ready = FALSE /\ client_tid = Tid0
    /\ srv = "serve" /\ notifier_exit_count = 0
    /\ rien = FALSE
    /\ sendq = <<>>
    /\ pc = [t \in Tasks |-> "ready"]
    /\ msg = [t \in Tasks |-> NoMsg]
    /\ rep = [t \in Tasks |-> NoMsg]
    /\ rxWire = 0 /\ rxGot = <<>> /\ delivered = <<>>
    /\ written = 0 /\ txWire = <<>>

\* Send(t, m): t blocks on the server with message m.
Send(t, m) ==
    /\ sendq' = Append(sendq, t)
    /\ pc' = [pc EXCEPT ![t] = "send_wait"]
    /\ msg' = [msg EXCEPT ![t] = m]

\* The drain loops at lines 235, 247 and 271: ringbuffer_get while the
\* buffer is not empty and fewer than max bytes were taken.
RECURSIVE DrainRing(_, _, _)
DrainRing(ctx, acc, max) ==
    IF ringbuffer_empty(ctx) \/ Len(acc) >= max
    THEN [ctx |-> ctx, data |-> acc]
    ELSE LET g == ringbuffer_get(ctx)
         IN  DrainRing(g.ctx, Append(acc, g.data), max)

\* The head of sendq, whose message the server's Receive returns.
Sender == Head(sendq)

\* Receive: the server is in its loop and a sender is queued.
Receive(phase, types) ==
    /\ srv = phase
    /\ sendq # <<>>
    /\ msg[Sender].type \in types
    /\ sendq' = Tail(sendq)

\* panic() from a server: the kernel stops scheduling every task.
Panic ==
    /\ srv' = "panicked"
    /\ pc' = [pc EXCEPT ![Sender] = "reply_wait"]
    /\ UNCHANGED <<rb_in, rb_out, tx_ready, client_ready, client_tid,
                   notifier_exit_count, rep, delivered>>

HandleClientRead ==
    /\ Receive("serve", {"CLIENT_READ"})
    /\ \/ /\ ringbuffer_empty(rb_in)
          /\ client_ready' = TRUE /\ client_tid' = Sender
          /\ pc' = [pc EXCEPT ![Sender] = "reply_wait"]
          /\ UNCHANGED <<rb_in, rep, delivered>>
       \/ LET d == DrainRing(rb_in, <<>>, msg[Sender].len)
          IN  /\ ~ringbuffer_empty(rb_in)
              /\ rb_in' = d.ctx
              /\ pc' = [pc EXCEPT ![Sender] = "ready"]
              /\ rep' = [rep EXCEPT ![Sender] = Msg("CLIENT_READ", d.data)]
              /\ delivered' = delivered \o d.data
              /\ UNCHANGED <<client_ready, client_tid>>
    /\ UNCHANGED <<rb_out, tx_ready, srv, notifier_exit_count>>

\* Mutant: the write handler hands the tx notifier the client's message
\* itself instead of draining rb_out, where putn has already put it.
HandleClientWrite_no_drain ==
    LET p == ringbuffer_putn(rb_out, msg[Sender].data)
    IN
    /\ Receive("serve", {"CLIENT_WRITE"})
    /\ \/ ~p.ok /\ Panic
       \/ /\ p.ok /\ tx_ready
          /\ rb_out' = p.ctx /\ tx_ready' = FALSE
          /\ pc' = [pc EXCEPT ![TxN] = "ready", ![Sender] = "ready"]
          /\ rep' = [rep EXCEPT ![TxN] = msg[Sender],
                                ![Sender] = Msg("CLIENT_WRITE", <<>>)]
          /\ UNCHANGED <<rb_in, client_ready, client_tid, srv,
                         notifier_exit_count, delivered>>
       \/ /\ p.ok /\ ~tx_ready
          /\ rb_out' = p.ctx
          /\ pc' = [pc EXCEPT ![Sender] = "ready"]
          /\ rep' = [rep EXCEPT ![Sender] = Msg("CLIENT_WRITE", <<>>)]
          /\ UNCHANGED <<rb_in, tx_ready, client_ready, client_tid, srv,
                         notifier_exit_count, delivered>>

\* Mutant: tx_ready is left set after the bytes are handed over.
HandleClientWrite_keep_ready ==
    LET p == ringbuffer_putn(rb_out, msg[Sender].data)
        d == DrainRing(p.ctx, <<>>, MaxDataLen)
    IN
    /\ Receive("serve", {"CLIENT_WRITE"})
    /\ \/ ~p.ok /\ Panic
       \/ /\ p.ok /\ tx_ready
          /\ rb_out' = d.ctx
          /\ pc' = [pc EXCEPT ![TxN] = "ready", ![Sender] = "ready"]
          /\ rep' = [rep EXCEPT ![TxN] = Msg("CLIENT_WRITE", d.data),
                                ![Sender] = Msg("CLIENT_WRITE", <<>>)]
          /\ UNCHANGED <<rb_in, tx_ready, client_ready, client_tid, srv,
                         notifier_exit_count, delivered>>
       \/ /\ p.ok /\ ~tx_ready
          /\ rb_out' = p.ctx
          /\ pc' = [pc EXCEPT ![Sender] = "ready"]
          /\ rep' = [rep EXCEPT ![Sender] = Msg("CLIENT_WRITE", <<>>)]
          /\ UNCHANGED <<rb_in, tx_ready, client_ready, client_tid, srv,
                         notifier_exit_count, delivered>>

\* CLIENT_WRITE: putn all the bytes or panic; if the tx notifier is
\* waiting, hand it up to MaxDataLen bytes; reply to the writer.
HandleClientWrite ==
    LET p == ringbuffer_putn(rb_out, msg[Sender].data)
        d == DrainRing(p.ctx, <<>>, MaxDataLen)
    IN
    /\ Receive("serve", {"CLIENT_WRITE"})
    /\ \/ ~p.ok /\ Panic
       \/ /\ p.ok /\ tx_ready
          /\ rb_out' = d.ctx /\ tx_ready' = FALSE
          /\ pc' = [pc EXCEPT ![TxN] = "ready", ![Sender] = "ready"]
          /\ rep' = [rep EXCEPT ![TxN] = Msg("CLIENT_WRITE", d.data),
                                ![Sender] = Msg("CLIENT_WRITE", <<>>)]
          /\ UNCHANGED <<rb_in, client_ready, client_tid, srv,
                         notifier_exit_count, delivered>>
       \/ /\ p.ok /\ ~tx_ready
          /\ rb_out' = p.ctx
          /\ pc' = [pc EXCEPT ![Sender] = "ready"]
          /\ rep' = [rep EXCEPT ![Sender] = Msg("CLIENT_WRITE", <<>>)]
          /\ UNCHANGED <<rb_in, tx_ready, client_ready, client_tid, srv,
                         notifier_exit_count, delivered>>

\* Mutant: the waiting reader is given the byte from the message while
\* the byte also stays in rb_in.
HandleNotifRx_no_get ==
    LET b == msg[Sender].data[1]
        p == ringbuffer_put(rb_in, b)
    IN
    /\ Receive("serve", {"NOTIF_RX"})
    /\ \/ ~p.ok /\ Panic
       \/ /\ p.ok /\ client_ready
          /\ rb_in' = p.ctx /\ client_ready' = FALSE
          /\ pc' = [pc EXCEPT ![client_tid] = "ready", ![Sender] = "ready"]
          /\ rep' = [rep EXCEPT ![client_tid] = Msg("NOTIF_RX", <<b>>),
                                ![Sender] = Msg("NOTIF_RX", <<>>)]
          /\ delivered' = Append(delivered, b)
          /\ UNCHANGED <<rb_out, tx_ready, client_tid, srv,
                         notifier_exit_count>>
       \/ /\ p.ok /\ ~client_ready
          /\ rb_in' = p.ctx
          /\ pc' = [pc EXCEPT ![Sender] = "ready"]
          /\ rep' = [rep EXCEPT ![Sender] = Msg("NOTIF_RX", <<>>)]
          /\ UNCHANGED <<rb_out, tx_ready, client_ready, client_tid, srv,
                         notifier_exit_count, delivered>>

\* NOTIF_RX: buffer the byte or panic; a waiting reader gets the oldest
\* byte; reply to the rx notifier.
HandleNotifRx ==
    LET p == ringbuffer_put(rb_in, msg[Sender].data[1])
        g == ringbuffer_get(p.ctx)
    IN
    /\ Receive("serve", {"NOTIF_RX"})
    /\ \/ ~p.ok /\ Panic
       \/ /\ p.ok /\ client_ready
          /\ rb_in' = g.ctx /\ client_ready' = FALSE
          /\ pc' = [pc EXCEPT ![client_tid] = "ready", ![Sender] = "ready"]
          /\ rep' = [rep EXCEPT ![client_tid] = Msg("NOTIF_RX", <<g.data>>),
                                ![Sender] = Msg("NOTIF_RX", <<>>)]
          /\ delivered' = Append(delivered, g.data)
          /\ UNCHANGED <<rb_out, tx_ready, client_tid, srv,
                         notifier_exit_count>>
       \/ /\ p.ok /\ ~client_ready
          /\ rb_in' = p.ctx
          /\ pc' = [pc EXCEPT ![Sender] = "ready"]
          /\ rep' = [rep EXCEPT ![Sender] = Msg("NOTIF_RX", <<>>)]
          /\ UNCHANGED <<rb_out, tx_ready, client_ready, client_tid, srv,
                         notifier_exit_count, delivered>>

\* Mutant: an empty rb_out does not mark the tx notifier as waiting.
HandleNotifTx_no_ready ==
    LET d == DrainRing(rb_out, <<>>, MaxDataLen)
    IN
    /\ Receive("serve", {"NOTIF_TX"})
    /\ rb_out' = d.ctx
    /\ \/ /\ d.data # <<>>
          /\ pc' = [pc EXCEPT ![Sender] = "ready"]
          /\ rep' = [rep EXCEPT ![Sender] = Msg("NOTIF_TX", d.data)]
       \/ /\ d.data = <<>>
          /\ pc' = [pc EXCEPT ![Sender] = "reply_wait"]
          /\ UNCHANGED rep
    /\ UNCHANGED <<rb_in, tx_ready, client_ready, client_tid, srv,
                   notifier_exit_count, delivered>>

\* NOTIF_TX: hand the tx notifier up to MaxDataLen bytes, or leave it
\* reply-blocked with tx_ready set when rb_out is empty.
HandleNotifTx ==
    LET d == DrainRing(rb_out, <<>>, MaxDataLen)
    IN
    /\ Receive("serve", {"NOTIF_TX"})
    /\ rb_out' = d.ctx
    /\ \/ /\ d.data # <<>>
          /\ pc' = [pc EXCEPT ![Sender] = "ready"]
          /\ rep' = [rep EXCEPT ![Sender] = Msg("NOTIF_TX", d.data)]
          /\ UNCHANGED tx_ready
       \/ /\ d.data = <<>>
          /\ tx_ready' = TRUE
          /\ pc' = [pc EXCEPT ![Sender] = "reply_wait"]
          /\ UNCHANGED rep
    /\ UNCHANGED <<rb_in, client_ready, client_tid, srv,
                   notifier_exit_count, delivered>>

\* EXIT: leave the loop; the exiter is not replied to.
HandleExit ==
    /\ Receive("serve", {"EXIT"})
    /\ srv' = "shutdown"
    /\ pc' = [pc EXCEPT ![Sender] = "reply_wait"]
    /\ UNCHANGED <<rb_in, rb_out, tx_ready, client_ready, client_tid,
                   notifier_exit_count, rep, delivered>>

\* The shutdown loop: a notifier's message is answered with EXIT and
\* counted; any other message is received and dropped.  After two
\* notifiers the server Exits.
ShutdownReceive ==
    /\ Receive("shutdown", {"CLIENT_READ", "CLIENT_WRITE", "NOTIF_RX",
                            "NOTIF_TX", "EXIT"})
    /\ \/ /\ msg[Sender].type \in {"NOTIF_RX", "NOTIF_TX"}
          /\ pc' = [pc EXCEPT ![Sender] = "ready"]
          /\ rep' = [rep EXCEPT ![Sender] = Msg("EXIT", <<>>)]
          /\ notifier_exit_count' = notifier_exit_count + 1
          /\ srv' = IF notifier_exit_count + 1 = 2 THEN "exited" ELSE srv
       \/ /\ msg[Sender].type \notin {"NOTIF_RX", "NOTIF_TX"}
          /\ pc' = [pc EXCEPT ![Sender] = "reply_wait"]
          /\ UNCHANGED <<rep, notifier_exit_count, srv>>
    /\ UNCHANGED <<rb_in, rb_out, tx_ready, client_ready, client_tid,
                   delivered>>

ServerStep ==
    /\ \/ HandleClientRead \/ HandleClientWrite \/ HandleNotifRx
       \/ HandleNotifTx \/ HandleExit \/ ShutdownReceive
    /\ UNCHANGED <<rien, msg, rxWire, rxGot, written, txWire>>

\* Getc: Send CLIENT_READ with len 1; the byte comes back in rep.
Getc(r) ==
    /\ pc[r] = "ready"
    /\ Send(r, [type |-> "CLIENT_READ", len |-> 1, data |-> <<>>])
    /\ UNCHANGED <<serverVars, rien, rep, ghostVars>>

\* Putc and Putstr: Send CLIENT_WRITE with 1..MaxDataLen bytes (Putstr
\* truncates to IO_SERVER_MSG_MAX_DATA_LEN); they ignore the reply.
Putstr(w, n) ==
    /\ pc[w] = "ready"
    /\ written + n <= MaxWrite
    /\ Send(w, Msg("CLIENT_WRITE", [i \in 1..n |-> written + i]))
    /\ written' = written + n
    /\ UNCHANGED <<serverVars, rien, rep, rxWire, rxGot, delivered, txWire>>

\* io_server_exit: Send EXIT, once.
io_server_exit(e) ==
    /\ pc[e] = "ready" /\ msg[e] = NoMsg
    /\ Send(e, Msg("EXIT", <<>>))
    /\ UNCHANGED <<serverVars, rien, rep, ghostVars>>

\* io_server_notifier_rx_main's loop, run by the notifier itself: after a
\* reply it exits on EXIT or calls AwaitEvent(UART2_RX), which sets RIEN;
\* woken with a byte it Sends NOTIF_RX.
RxNotifier ==
    /\ \/ /\ pc[RxN] = "ready" /\ rep[RxN].type = "EXIT"
          /\ pc' = [pc EXCEPT ![RxN] = "exited"]
          /\ UNCHANGED <<sendq, msg, rien>>
       \/ /\ pc[RxN] = "ready" /\ rep[RxN].type # "EXIT"
          /\ pc' = [pc EXCEPT ![RxN] = "await"]
          /\ rien' = TRUE
          /\ UNCHANGED <<sendq, msg>>
       \/ /\ pc[RxN] = "woken"
          /\ Send(RxN, Msg("NOTIF_RX", rep[RxN].data))
          /\ UNCHANGED rien
    /\ UNCHANGED <<serverVars, rep, ghostVars>>

\* A byte arrives while RIEN is set: the kernel's UART interrupt reads it
\* and hands it to the tasks waiting for UART2_RX; with none, it is lost.
RxInterrupt ==
    /\ rien /\ rxWire < MaxRx
    /\ rxWire' = rxWire + 1
    /\ \/ /\ pc[RxN] = "await"
          /\ pc' = [pc EXCEPT ![RxN] = "woken"]
          /\ rep' = [rep EXCEPT ![RxN] = Msg("EVENT", <<rxWire + 1>>)]
          /\ rxGot' = Append(rxGot, rxWire + 1)
       \/ /\ pc[RxN] # "await"
          /\ UNCHANGED <<pc, rep, rxGot>>
    /\ UNCHANGED <<serverVars, rien, sendq, msg, delivered, written, txWire>>

\* io_server_notifier_tx_main's loop for COM2: one AwaitEvent(UART2_TX)
\* per byte of the last reply, then Send NOTIF_TX; exit on EXIT.
TxNotifier ==
    /\ \/ /\ pc[TxN] = "ready" /\ rep[TxN].type = "EXIT"
          /\ pc' = [pc EXCEPT ![TxN] = "exited"]
          /\ UNCHANGED <<sendq, msg, rep, txWire>>
       \/ /\ pc[TxN] = "ready" /\ rep[TxN].type # "EXIT"
          /\ rep[TxN].data # <<>>
          /\ pc' = [pc EXCEPT ![TxN] = "await"]
          /\ UNCHANGED <<sendq, msg, rep, txWire>>
       \/ /\ pc[TxN] = "woken"
          /\ txWire' = Append(txWire, Head(rep[TxN].data))
          /\ rep' = [rep EXCEPT ![TxN].data = Tail(@)]
          /\ IF Tail(rep[TxN].data) # <<>>
             THEN pc' = [pc EXCEPT ![TxN] = "await"] /\ UNCHANGED <<sendq, msg>>
             ELSE Send(TxN, Msg("NOTIF_TX", <<>>))
       \/ /\ pc[TxN] = "ready" /\ rep[TxN].type # "EXIT"
          /\ rep[TxN].data = <<>>
          /\ Send(TxN, Msg("NOTIF_TX", <<>>))
          /\ UNCHANGED <<rep, txWire>>
    /\ UNCHANGED <<serverVars, rien, rxWire, rxGot, delivered, written>>

\* The transmitter has room: the UART2 TX interrupt (enabled by the
\* notifier's AwaitEvent, disabled by the kernel when it fires) wakes it.
TxInterrupt ==
    /\ pc[TxN] = "await"
    /\ pc' = [pc EXCEPT ![TxN] = "woken"]
    /\ UNCHANGED <<serverVars, rien, sendq, msg, rep, ghostVars>>

Running == srv # "panicked"

Next ==
    /\ Running
    /\ \/ ServerStep
       \/ \E r \in Readers : Getc(r)
       \/ \E w \in Writers, n \in 1..MaxDataLen : Putstr(w, n)
       \/ \E e \in Exiters : io_server_exit(e)
       \/ RxNotifier \/ RxInterrupt
       \/ TxNotifier \/ TxInterrupt

Spec == Init /\ [][Next]_vars

\* Weak fairness: a ready task eventually runs (the server and notifiers
\* block in every iteration, and the clients block in every call, so no
\* task keeps a lower-priority one off the CPU), and the transmitter
\* eventually has room while TIEN is set.
FairSpec ==
    /\ Spec
    /\ WF_vars(Running /\ ServerStep)
    /\ WF_vars(Running /\ TxNotifier)
    /\ WF_vars(Running /\ RxNotifier)
    /\ WF_vars(Running /\ TxInterrupt)
    /\ \A r \in Readers : WF_vars(Running /\ Getc(r))

-----------------------------------------------------------------------------
(* Properties.                                                             *)

\* Byte numbers 1..n, in order.
Upto(n) == [i \in 1..n |-> i]

\* Bytes of the Putstr messages still queued on the server, in order.
PendingWrites ==
    FlattenSeq([i \in 1..Len(sendq) |->
                    IF msg[sendq[i]].type = "CLIENT_WRITE"
                    THEN msg[sendq[i]].data ELSE <<>>])

\* The byte the rx notifier holds between its wake-up and the server's
\* Receive.
RxInFlight ==
    CASE pc[RxN] = "woken"     -> rep[RxN].data
      [] pc[RxN] = "send_wait" -> msg[RxN].data
      [] OTHER                 -> <<>>

\* What the writers put is transmitted in order, exactly once: the UART's
\* bytes, then those the tx notifier holds, then rb_out, then the queued
\* Putstr messages are 1..written (io_server.c:242-281, the tx_ready
\* hand-off and both drain loops).  Whatever happens, the UART never
\* gets a byte twice or out of order.
OutputInOrder ==
    /\ IsPrefix(txWire, Upto(written))
    /\ srv = "serve" =>
         txWire \o rep[TxN].data \o RingContents(rb_out) \o PendingWrites
             = Upto(written)

\* What the rx notifier takes from the UART reaches Getc callers in
\* order, exactly once: delivered, then rb_in, then the byte in flight
\* are what the notifier took (io_server.c:227-269).
InputInOrder ==
    srv = "serve" => delivered \o RingContents(rb_in) \o RxInFlight = rxGot

\* The server's flags name exactly the tasks it leaves reply-blocked:
\* tx_ready iff the tx notifier waits for bytes, client_ready/client_tid
\* iff a reader waits for one; and no waiter is left beside bytes it
\* could be given (io_server.c:228-231, 245-253, 261-265, 276-279).
ServerTracksWaiters ==
    srv = "serve" =>
      /\ tx_ready <=> pc[TxN] = "reply_wait"
      /\ {r \in Readers : pc[r] = "reply_wait"}
            = IF client_ready THEN {client_tid} ELSE {}
      /\ tx_ready => ringbuffer_empty(rb_out)
      /\ client_ready => ringbuffer_empty(rb_in)

\* Every byte handed to Putc/Putstr is eventually transmitted, unless the
\* server stops serving (it panics, or io_server_exit shuts it down).
OutputDrains ==
    \A k \in 1..MaxWrite :
        written >= k ~> (Len(txWire) >= k \/ srv # "serve")

\* io_server_exit shuts the tx notifier down (io_server.h: "will also
\* shut down respective notifiers").
TxNotifierShutsDown == srv = "shutdown" ~> pc[TxN] = "exited"
=============================================================================
