--------------------------- MODULE MCProxyTunnel ---------------------------
(* Small instances of ProxyTunnel for TLC; the .cfg files set the bounds.  *)
EXTENDS ProxyTunnel
=============================================================================
