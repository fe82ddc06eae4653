--------------------------- MODULE MCConnectionPool --------------------------
(***************************************************************************)
(* Instances of ConnectionPool for TLC: fewer connections than requests.   *)
(***************************************************************************)
EXTENDS ConnectionPool
=============================================================================
