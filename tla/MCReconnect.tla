----------------------------- MODULE MCReconnect ----------------------------
(* A master, a worker with a token and the master's address, a bootstrap.  *)
EXTENDS Reconnect
=============================================================================
