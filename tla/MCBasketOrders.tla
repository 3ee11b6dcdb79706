---------------------------- MODULE MCBasketOrders --------------------------
(* Basket orders with the bounds and the kind of adapter of each cfg.      *)
EXTENDS BasketOrders
=============================================================================
