---------------------------- MODULE MCConnection ----------------------------
(* Two tasks that share a client, up to two calls. *)
EXTENDS Connection
=============================================================================
