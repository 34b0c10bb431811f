----------------------------- MODULE MCIOServer -----------------------------
EXTENDS IOServer

CONSTANTS r1, r2, w1, e1

OneReader == {r1}
TwoReaders == {r1, r2}
OneWriter == {w1}
OneExiter == {e1}
NoExiter == {}
=============================================================================
