-------------------------- MODULE MCNodeConnection --------------------------
(* NodeConnection on a few calls and threads. *)
EXTENDS NodeConnection
=============================================================================
