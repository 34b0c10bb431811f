---------------------------- MODULE MCAlgorithms ----------------------------
(***************************************************************************)
(* The kernel's sequential routines, each checked against a reference    *)
(* over bounded inputs: bitmap_leadingzeroes of the scheduler, the        *)
(* string.c routines, the clock server's sorted insertion (the           *)
(* MCClockQueue machine), the ring buffer (the MCRingBuffer caller) and  *)
(* the intrusive queue (the MCQueue caller) and the scheduler (the       *)
(* MCScheduler caller).  kind says which one a behaviour exercises: a    *)
(* bitmap b; two byte arrays x and y, a count n and a character ch; a    *)
(* sequence of insertions and releases on cm; a sequence of calls on rb; *)
(* a sequence of calls on the queues qm; or one on the scheduler sm.     *)
(***************************************************************************)
EXTENDS Scheduler, CString, SequencesExt, FiniteSetsExt

CONSTANTS NEntries, Deadlines, Size, Data, MaxPutN, Junk, Done, Refused, Empty,
          QIds, QNodes

VARIABLES kind, b, x, y, n, ch, cm, eticks, ref, rb, ret, qm, got, sz, sm, sgot, semp

vars == <<kind, b, x, y, n, ch, cm, eticks, ref, rb, ret, qm, got, sz, sm, sgot, semp>>

CQ == INSTANCE MCClockQueue
RB == INSTANCE MCRingBuffer
QU == INSTANCE MCQueue

\* Five tasks: two share a level, and the levels lie in different halves,
\* quarters and eighths of the bitmap word, level 0 taking the fast path.
SchedTasks == 1..5
SchedPrio == [t \in SchedTasks |-> <<0, 5, 33, 33, 62>>[t]]
SC == INSTANCE MCScheduler WITH STasks <- SchedTasks, SPrio <- SchedPrio

\* Every non-empty bitmap with at most three set bits.
Bitmaps == {{i, j, k} : i, j, k \in 0..(PriorityCount - 1)}

\* Byte arrays of three bytes: NUL, a small byte and one above 127, the
\* one whose sign a signed char would flip.
ArrayLen == 3
Bytes == {0, 1, 200}
Arrays == [1..ArrayLen -> Bytes]
\* A character given as the byte itself and as an int whose low eight
\* bits are 200.
Chars == {1, 456}

Init ==
    /\ CQ!Init /\ RB!Init /\ QU!Init /\ SC!Init
    /\ \/ /\ kind = "bitmap" /\ b \in Bitmaps
          /\ x = <<>> /\ y = <<>> /\ n = 0 /\ ch = 0
       \/ /\ kind = "string" /\ b = {0}
          /\ x \in Arrays /\ y \in Arrays /\ n \in 0..ArrayLen /\ ch \in Chars
       \/ /\ kind \in {"clock_queue", "ringbuffer", "queue", "scheduler"} /\ b = {0}
          /\ x = <<>> /\ y = <<>> /\ n = 0 /\ ch = 0

\* A bitmap or string input is a single state, kept by stuttering.
Next ==
    \/ /\ kind = "clock_queue" /\ CQ!Next
       /\ UNCHANGED <<kind, b, x, y, n, ch, rb, ret, qm, got, sz, sm, sgot, semp>>
    \/ /\ kind = "ringbuffer" /\ RB!Next
       /\ UNCHANGED <<kind, b, x, y, n, ch, cm, eticks, ref, qm, got, sz, sm, sgot, semp>>
    \/ /\ kind = "queue" /\ QU!Next
       /\ UNCHANGED <<kind, b, x, y, n, ch, cm, eticks, ref, rb, ret, sm, sgot, semp>>
    \/ /\ kind = "scheduler" /\ SC!Next
       /\ UNCHANGED <<kind, b, x, y, n, ch, cm, eticks, ref, rb, ret, qm, got, sz>>
    \/ kind \in {"bitmap", "string"} /\ UNCHANGED vars
Spec == Init /\ [][Next]_vars

-----------------------------------------------------------------------------
(* Reference definitions.                                                  *)

\* The C string in the first k bytes of a: the bytes before its first NUL.
CStr(a, k) ==
    LET z == SelectInSeq(SubSeq(a, 1, k), LAMBDA c : c = 0)
    IN  IF z = 0 THEN SubSeq(a, 1, k) ELSE SubSeq(a, 1, z - 1)

Sign(v) == IF v < 0 THEN -1 ELSE IF v > 0 THEN 1 ELSE 0

\* Lexicographic order of byte strings without NULs, a proper prefix first.
LexCmp(s, t) ==
    LET s0 == s \o <<0>>
        t0 == t \o <<0>>
        d  == {i \in 1..Min({Len(s0), Len(t0)}) : s0[i] # t0[i]}
    IN  IF d = {} THEN 0 ELSE Sign(s0[Min(d)] - t0[Min(d)])

-----------------------------------------------------------------------------
(* Properties.                                                             *)

\* The five-step halving search of bitmap_leadingzeroes returns the index of
\* the lowest set bit, i.e. the highest ready priority scheduler_get must
\* serve, for bits in every half, quarter, ... of the word.
LeadingZeroesIsLowestBit == bitmap_leadingzeroes(b) = Min(b)

\* The string.c routines agree with what string.h promises: strncmp orders
\* the strings in the first n bytes as unsigned bytes and stops at the
\* terminator, strncpy copies the string and pads to n with NULs, memchr
\* finds the first matching byte, memcmp orders the n bytes, memcpy
\* copies n bytes and memset fills them with the byte of ch; bytes
\* beyond n are never touched.  The name server's
\* lookups rely on the first two.
CStringMatchesReference ==
    kind = "string" =>
      /\ Sign(strncmp(x, y, n)) = LexCmp(CStr(x, n), CStr(y, n))
      /\ LET d == strncpy(x, y, n) IN
         /\ CStr(d, n) = CStr(y, n)
         /\ \A i \in Len(CStr(y, n)) + 1 .. n : d[i] = 0
         /\ \A i \in n + 1 .. ArrayLen : d[i] = x[i]
      /\ LET hits == {i \in 0..n-1 : x[i + 1] = UChar(ch)} IN
         memchr(x, ch, n) = IF hits = {} THEN NullPtr ELSE Min(hits)
      /\ memcmp(x, y, n) = LexCmp(SubSeq(x, 1, n), SubSeq(y, 1, n))
      /\ memcpy(x, y, n) = SubSeq(y, 1, n) \o SubSeq(x, n + 1, ArrayLen)
      /\ memset(x, ch, n) = [i \in 1..n |-> UChar(ch)] \o SubSeq(x, n + 1, ArrayLen)

\* The hand-made walk and splice of DELAYUNTIL keep blocked sorted by
\* deadline and first-come first-served among equal deadlines, with every
\* entry in blocked or free_list once (MCClockQueue).
BlockedIsStableSorted == CQ!BlockedIsStableSorted

\* The ring buffer's index arithmetic (the modulo in put, putn and get,
\* ringbuffer_full's one spare slot, putn's free-space test and
\* ringbuffer_size across the wrap) implements a FIFO of Size - 1 bytes:
\* no byte is lost, duplicated or reordered and no call is refused while
\* there is room (MCRingBuffer).
RefinesBoundedFifo == RB!RefinesBoundedFifo

\* The link surgery of queue_put, queue_put_front and queue_get (the back
\* pointer, the cleared next of a new back and of a removed front, the
\* count) implements a FIFO with push-front: whatever the order of calls
\* and however nodes move between queues, the NULL-terminated chain from
\* front holds exactly the queued nodes in order, get and peek return its
\* head, and queue_size its length (MCQueue).
RefinesNodeFifo == QU!RefinesNodeFifo

\* The bitmap search, the bit cleared when a level's queue is left empty
\* and the bit set by every put implement one FIFO per priority level,
\* lowest level first: scheduler_get never skips a ready level, never
\* returns a task twice or out of order within its level, and returns
\* NULL, and scheduler_empty TRUE, exactly when no task is ready, even
\* when the bitmap word held garbage before scheduler_init (MCScheduler).
RefinesPriorityReady == SC!RefinesPriorityReady
=============================================================================
