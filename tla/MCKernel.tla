------------------------------ MODULE MCKernel ------------------------------
(***************************************************************************)
(* Model-checking instances of Kernel.  Each cfg picks one set of          *)
(* definitions below for the constants.                                    *)
(***************************************************************************)
EXTENDS Kernel

\* Well-behaved programs: valid priorities, Create only while the table has
\* room, matching message lengths, Reply only to a task received from.
WellBehavedPrios == {0, 1}
OneLen == {1}
TwoLens == {1, 2}
\* Events tasks wait for: the timer, UART1 transmit, and an id outside the
\* handler's range.
SomeEvents == {0, 5, 16}
TimerOnly == {0}
RxByte == {65}
\* A priority below the idle task's (a larger number runs later).
BelowIdlePrios == {30}
\* Waiting for UART1 receive and for the timer.
RxAndTimer == {0, 3}
=============================================================================
