-------------------------- MODULE MCKernelPrograms --------------------------
(***************************************************************************)
(* Two sets of user programs on the same three-slot kernel, checked in one *)
(* run.  prog is fixed in the initial state and picks which instance of    *)
(* Kernel takes every step, so the state space is the disjoint union of    *)
(* the two instances' state spaces:                                        *)
(*   "errors": the error paths: an out-of-range priority, Create on a full *)
(*             table, mismatched message lengths, and tasks waiting for    *)
(*             UART1 transmit;                                             *)
(*   "uart":   tasks waiting for UART1 modem status and UART2 receive.     *)
(***************************************************************************)
EXTENDS Naturals

CONSTANT NULL

VARIABLES
    prog,
    qs, nxt, bitmap, td, nextFree, kstate, idleExit, idlePastLoop, ctlr, panicked,
    lastRun, irq, owed, sentTo, inSend, repBuf

E == INSTANCE Kernel WITH MaxTasks <- 3, CreatePrios <- {2, 64}, Lens <- {1, 2},
                          AwaitArgs <- {5}, HwData <- {65},
                          CreateWhenFull <- TRUE, ReplyAnyTarget <- FALSE,
                          RxTimeoutIrq <- FALSE, UninitTidMatch <- FALSE

U == INSTANCE Kernel WITH MaxTasks <- 3, CreatePrios <- {0, 1}, Lens <- {1},
                          AwaitArgs <- {2, 7}, HwData <- {65},
                          CreateWhenFull <- FALSE, ReplyAnyTarget <- FALSE,
                          RxTimeoutIrq <- FALSE, UninitTidMatch <- FALSE

vars == <<prog, E!vars>>

Init ==
    \/ prog = "errors" /\ E!Init
    \/ prog = "uart" /\ U!Init

Next ==
    /\ \/ prog = "errors" /\ E!Next
       \/ prog = "uart" /\ U!Next
    /\ UNCHANGED prog

Spec == Init /\ [][Next]_vars

\* The properties below do not depend on the programs' constants, so E's
\* and U's forms of each are the same formula, checked on both halves.

\* Every kernel variable keeps its type.
TypeOK == E!TypeOK

\* Bit p of the ready bitmap is set exactly when ready queue p is
\* non-empty, through the error returns of Create, Send and Receive.
BitmapMatchesQueues == E!BitmapMatchesQueues

\* Each iteration of main() activates the first of the highest-priority
\* ready tasks, also after a failed Create or a size mismatch.
SchedulerPicksHighest == E!SchedulerPicksHighest

\* An interrupt wakes exactly the tasks waiting for the event it raised:
\* UART1 TX, UART1 modem status, UART2 RX, or nobody for a cause the
\* decoder does not recognise.
EventWakeMatchesCause == E!EventWakeMatchesCause
=============================================================================
