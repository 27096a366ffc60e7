---------------------------- MODULE MCZmqEngine -----------------------------
(* ZmqEngine, a few calls long. *)
EXTENDS ZmqEngine
=============================================================================
