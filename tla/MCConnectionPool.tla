--------------------------- MODULE MCConnectionPool ---------------------------
(* Instances of ConnectionPool for TLC.                                    *)
EXTENDS ConnectionPool

CONSTANTS r1, r2, op, s1, s2, here, there
=============================================================================
