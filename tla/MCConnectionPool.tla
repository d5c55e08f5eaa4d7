---------------------------- MODULE MCConnectionPool ----------------------------
(* ConnectionPool for TLC.  The actors are model values.                    *)
EXTENDS ConnectionPool
===============================================================================
