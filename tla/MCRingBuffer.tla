---------------------------- MODULE MCRingBuffer ----------------------------
(***************************************************************************)
(* One ring buffer driven by any sequence of ringbuffer_put, _putn and     *)
(* _get calls, as the io server makes them.  ret records what the caller   *)
(* sees.  The buffer must implement BoundedFifo with capacity Size - 1.    *)
(***************************************************************************)
EXTENDS RingBuffer

CONSTANTS Size, Data, MaxPutN, Junk, Done, Refused, Empty

VARIABLES rb, ret

vars == <<rb, ret>>

\* The argument sequences of ringbuffer_putn: up to MaxPutN bytes.
PutNArgs == UNION {[1..n -> Data] : n \in 0..MaxPutN}

\* The C array handed to ringbuffer_init is uninitialised stack memory.
Init ==
    /\ rb = ringbuffer_init([i \in 0..Size-1 |-> Junk], Size)
    /\ ret = Done

CallPut(d) ==
    LET r == ringbuffer_put(rb, d)
    IN  rb' = r.ctx /\ ret' = IF r.ok THEN Done ELSE Refused

CallPutN(s) ==
    LET r == ringbuffer_putn(rb, s)
    IN  rb' = r.ctx /\ ret' = IF r.ok THEN Done ELSE Refused

CallGet ==
    LET r == ringbuffer_get(rb)
    IN  rb' = r.ctx /\ ret' = IF r.ok THEN r.data ELSE Empty

Next ==
    \/ \E d \in Data : CallPut(d)
    \/ \E s \in PutNArgs : CallPutN(s)
    \/ CallGet

Spec == Init /\ [][Next]_vars

Fifo == INSTANCE BoundedFifo WITH q <- RingContents(rb), Cap <- Size - 1,
                                Batches <- PutNArgs

\* The ring buffer's index arithmetic (the modulo in put, putn and get,
\* ringbuffer_full's one spare slot, putn's free-space test and
\* ringbuffer_size across the wrap) implements a FIFO of Size - 1 bytes:
\* no byte is lost, duplicated or reordered and no call is refused while
\* there is room.
RefinesBoundedFifo == Fifo!Spec
=============================================================================
