------------------------------- MODULE MCClients -------------------------------
(* Clients for TLC: one connection that subscribes and publishes to itself, and *)
(* one that publishes.                                                          *)
EXTENDS Clients, TLC

CONSTANTS c1, c2

MCMaxSubs == c1 :> 1 @@ c2 :> 0
MCMaxPubs == c1 :> 1 @@ c2 :> 1
MCMaxUnasked == c1 :> 1 @@ c2 :> 0
================================================================================
