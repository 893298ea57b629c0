------------------------ MODULE MCProxiedTransaction ------------------------
(* Bounds of the proxied transaction for TLC.                              *)
EXTENDS ProxiedTransaction

MCMaxOps == 3
=============================================================================
