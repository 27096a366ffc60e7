---------------------------- MODULE MCNimClient -----------------------------
(* NimClient with two callers and two closers. Liveness is checked, so they  *)
(* are not made symmetric.                                                   *)
EXTENDS NimClient
=============================================================================
