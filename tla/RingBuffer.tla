----------------------------- MODULE RingBuffer -----------------------------
(***************************************************************************)
(* The byte ring buffer of ringbuffer.c.  A ringbuffer_t is a record with  *)
(* the fields of the C struct; buf is a function from 0..size-1 to bytes.  *)
(* Each operation takes the record and returns the record after the call   *)
(* together with the call's result, so that a caller composes them in the  *)
(* order of its C statements.  One slot is always left free: the buffer    *)
(* holds at most size - 1 bytes.                                           *)
(***************************************************************************)
EXTENDS Naturals, Sequences

\* a < b for a size_t difference a: a negative difference wraps to a value
\* of at least 2^31, above any length, so the test is then false.
SizeTLess(a, b) == a >= 0 /\ a < b

\* ringbuffer_init: empty, over the caller's (uninitialised) array buf.
ringbuffer_init(buf, buf_size) ==
    [read_index |-> 0, write_index |-> 0, size |-> buf_size, buf |-> buf]

ringbuffer_empty(ctx) == ctx.read_index = ctx.write_index

ringbuffer_full(ctx) == (ctx.write_index + 1) % ctx.size = ctx.read_index

ringbuffer_size(ctx) ==
    IF ctx.write_index < ctx.read_index
    THEN (ctx.write_index + ctx.size) - ctx.read_index
    ELSE ctx.write_index - ctx.read_index

\* ringbuffer_get: ok is FALSE where the C returns NULL; data is the byte
\* at the returned pointer.
ringbuffer_get(ctx) ==
    IF ringbuffer_empty(ctx)
    THEN [ctx |-> ctx, ok |-> FALSE, data |-> ctx.buf[ctx.read_index]]
    ELSE [ctx |-> [ctx EXCEPT !.read_index = (@ + 1) % ctx.size],
          ok  |-> TRUE,
          data |-> ctx.buf[ctx.read_index]]

ringbuffer_put(ctx, data) ==
    IF ringbuffer_full(ctx)
    THEN [ctx |-> ctx, ok |-> FALSE]
    ELSE [ctx |-> [ctx EXCEPT !.buf[ctx.write_index] = data,
                              !.write_index = (@ + 1) % ctx.size],
          ok  |-> TRUE]

\* The copy loop of ringbuffer_putn writes data[i] at write_index + i
\* (mod size); it is given here in closed form.
PutnLoop(ctx, data) ==
    [ctx EXCEPT
        !.buf = [j \in DOMAIN ctx.buf |->
                    LET i == (j - ctx.write_index) % ctx.size
                    IN  IF i < Len(data) THEN data[i + 1] ELSE ctx.buf[j]],
        !.write_index = (@ + Len(data)) % ctx.size]

\* Mutant: the free-space test without the slot that must stay empty.
ringbuffer_putn_no_spare(ctx, data) ==
    IF SizeTLess(ctx.size - ringbuffer_size(ctx), Len(data))
    THEN [ctx |-> ctx, ok |-> FALSE]
    ELSE [ctx |-> PutnLoop(ctx, data), ok |-> TRUE]

\* ringbuffer_putn: all of data or nothing.  The test is size_t arithmetic.
ringbuffer_putn(ctx, data) ==
    IF SizeTLess((ctx.size - 1) - ringbuffer_size(ctx), Len(data))
    THEN [ctx |-> ctx, ok |-> FALSE]
    ELSE [ctx |-> PutnLoop(ctx, data), ok |-> TRUE]

\* The bytes held, oldest first: the sequence the buffer stands for.
RingContents(ctx) ==
    [i \in 1..ringbuffer_size(ctx) |->
        ctx.buf[(ctx.read_index + i - 1) % ctx.size]]
=============================================================================
