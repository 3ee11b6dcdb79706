---------------------------- MODULE MCOrderManager --------------------------
(* The order manager with the bounds of each cfg.                          *)
EXTENDS OrderManager
=============================================================================
