------------------------------- MODULE MCComm -------------------------------
EXTENDS Comm

\* A recording with both channels and one that lacks the second.
CONSTANTS r1, r2
MCNames == {r1, r2}
MCRecorded == {<<r1, 1>>, <<r1, 2>>, <<r2, 1>>}
=============================================================================
