---------------------------- MODULE MCProxyEvents ----------------------------
(* A small instance of ProxyEvents for TLC.                                *)
EXTENDS ProxyEvents, TLC

CONSTANTS n1, n2

\* n2 is a child of n1.
MCParent == (n1 :> None) @@ (n2 :> n1)
=============================================================================
