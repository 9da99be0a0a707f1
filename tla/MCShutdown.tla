----------------------------- MODULE MCShutdown -----------------------------
EXTENDS Shutdown

CONSTANT r1
MCRecorded == {<<r1, 1>>, <<r1, 2>>}
=============================================================================
