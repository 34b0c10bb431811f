----------------------------- MODULE ClockQueue -----------------------------
(***************************************************************************)
(* The clock server's sorted insertion into blocked (clock_server.c,       *)
(* DELAYUNTIL case): an operation on the intrusive queue memory of Queue, *)
(* with et the deadline of each entry.                                    *)
(***************************************************************************)
EXTENDS Queue

\* Mutant: the walk compares the current entry's deadline, not the next's.
RECURSIVE InsertAfter_cmp_curr(_, _, _, _)
InsertAfter_cmp_curr(nxt, et, curr, t) ==
    IF nxt[curr] # NULL /\ ~(et[curr] > t)
    THEN InsertAfter_cmp_curr(nxt, et, nxt[curr], t) ELSE curr

\* The walk of lines 152-159: from curr, advance while the next entry's
\* deadline is not later than t.  New entries go after equal deadlines.
RECURSIVE InsertAfter(_, _, _, _)
InsertAfter(nxt, et, curr, t) ==
    IF nxt[curr] # NULL /\ ~(et[nxt[curr]] > t)
    THEN InsertAfter(nxt, et, nxt[curr], t) ELSE curr

\* Mutant: the hand-made splice does not count the new element.
SortedInsert_no_count(m, et, e) ==
    LET front == queue_peek(m, "blocked") IN
    IF front = NULL \/ et[front] > et[e]
    THEN queue_put_front(m, "blocked", e)
    ELSE LET curr == InsertAfter(m.nxt, et, front, et[e]) IN
         [m EXCEPT !.nxt = [@ EXCEPT ![e] = m.nxt[curr], ![curr] = e]]

\* Insertion of entry e (deadline et[e]) into blocked in sorted order: at
\* the front if blocked is empty or its front is later, otherwise spliced
\* by hand after the walk (back is not updated; blocked never uses it).
SortedInsert(m, et, e) ==
    LET front == queue_peek(m, "blocked") IN
    IF front = NULL \/ et[front] > et[e]
    THEN queue_put_front(m, "blocked", e)
    ELSE LET curr == InsertAfter(m.nxt, et, front, et[e]) IN
         [m EXCEPT !.nxt = [@ EXCEPT ![e] = m.nxt[curr], ![curr] = e],
                   !.qs["blocked"].elements = @ + 1]
=============================================================================
