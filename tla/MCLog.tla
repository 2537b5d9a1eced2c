-------------------------------- MODULE MCLog --------------------------------
\* Instances of Log for TLC.
EXTENDS Log

CONSTANTS p1, p2, b1, b2, v0, v1

MCProcs2 == {p1, p2}
MCBlocks2 == {b1, b2}
MCVals == {v0, v1}
===============================================================================
