----------------------------- MODULE BoundedFifo ----------------------------
(***************************************************************************)
(* What a byte FIFO of capacity Cap promises its caller: Put and PutN      *)
(* append (PutN all or nothing) and are refused only when the bytes do not *)
(* fit; Get returns the oldest byte, and reports Empty only when nothing   *)
(* is held.  ret is the result the caller sees of the last call.           *)
(***************************************************************************)
EXTENDS Naturals, Sequences

\* Batches: the byte sequences a caller may pass to PutN.
CONSTANTS Cap, Data, Batches, Done, Refused, Empty

VARIABLES q, ret

Init == q = <<>> /\ ret = Done

Put(d) ==
    \/ Len(q) < Cap /\ q' = Append(q, d) /\ ret' = Done
    \/ Len(q) = Cap /\ q' = q /\ ret' = Refused

PutN(s) ==
    \/ Len(q) + Len(s) <= Cap /\ q' = q \o s /\ ret' = Done
    \/ Len(q) + Len(s) > Cap /\ q' = q /\ ret' = Refused

Get ==
    \/ q # <<>> /\ q' = Tail(q) /\ ret' = Head(q)
    \/ q = <<>> /\ q' = q /\ ret' = Empty

Next ==
    \/ \E d \in Data : Put(d)
    \/ \E s \in Batches : PutN(s)
    \/ Get

Spec == Init /\ [][Next]_<<q, ret>>
=============================================================================
