------------------------------ MODULE MCWatching ------------------------------
EXTENDS Watching, TLC

CONSTANTS r1, r2, nobody
===============================================================================
