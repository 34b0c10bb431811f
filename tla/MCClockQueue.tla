---------------------------- MODULE MCClockQueue ----------------------------
(***************************************************************************)
(* The clock server's blocked list on its own, with more entries than the *)
(* whole-server model can afford: DELAYUNTIL takes an entry off free_list  *)
(* and inserts it by deadline, TICK moves the front back to free_list.    *)
(* ref is the list the insertions should give: each new entry after every *)
(* entry whose deadline is not later than its own.                        *)
(***************************************************************************)
EXTENDS ClockQueue, SequencesExt

CONSTANTS
    NEntries,     \* entries[] of the server
    Deadlines     \* deadlines of the requests

Entries == 0..NEntries-1

VARIABLES cm, eticks, ref

vars == <<cm, eticks, ref>>

RECURSIVE FreeAll(_, _)
FreeAll(m, i) == IF i = NEntries THEN m ELSE FreeAll(queue_put(m, "free", i), i + 1)

Init ==
    /\ cm = FreeAll([qs  |-> [q \in {"blocked", "free"} |-> QueueInit],
                     nxt |-> [e \in Entries |-> NULL]], 0)
    /\ eticks = [e \in Entries |-> 0]
    /\ ref = <<>>

\* The queue part of DELAYUNTIL with a future deadline t: a free entry is
\* taken, given the deadline and inserted into blocked.
Insert(t) ==
    LET g == queue_get(cm, "free")
        e == g.node
    IN
    /\ ~queue_empty(cm, "free")
    /\ eticks' = [eticks EXCEPT ![e] = t]
    /\ cm' = SortedInsert(g.mem, eticks', e)
    /\ ref' = InsertAt(ref, SelectLastInSeq(ref, LAMBDA x : eticks[x] <= t) + 1, e)

\* The queue part of a TICK that releases the front of blocked.
Release ==
    LET front == queue_peek(cm, "blocked")
        g     == queue_get(cm, "blocked")
    IN
    /\ front # NULL
    /\ cm' = queue_put(g.mem, "free", front)
    /\ ref' = Tail(ref)
    /\ UNCHANGED eticks

Next == (\E t \in Deadlines : Insert(t)) \/ Release

Spec == Init /\ [][Next]_vars

\* The hand-made walk and splice of DELAYUNTIL keep blocked sorted by
\* deadline and first-come first-served among equal deadlines: after any
\* sequence of insertions and releases blocked is exactly ref, and
\* blocked and free_list together hold every entry once.
BlockedIsStableSorted ==
    /\ Elems(cm, "blocked") = ref
    /\ cm.qs["blocked"].elements = Len(ref)
    /\ WellFormed(cm, "free")
    /\ Range(ref) \cup Range(Elems(cm, "free")) = Entries
=============================================================================
