----------------------------- MODULE PlaceOrder -----------------------------
(***************************************************************************)
(* What one call of OrderManager.place_order can do, as its callers see    *)
(* it: the action center, the GTT monitor, the basket executor, the order  *)
(* splitter and the smart order service all place orders through it.       *)
(*                                                                         *)
(* The call validates the request, hands it to a broker adapter (one HTTP  *)
(* POST with a 30 s timeout) and folds the adapter's answer into an        *)
(* OrderResponse.  Its callers look at success, broker_order_id and        *)
(* order_id only, and the broker keeps an order or does not:               *)
(*                                                                         *)
(*   "accepted"  the broker keeps the order, success = TRUE, with an id    *)
(*   "soft"      the broker answers 200 without an order id: the adapter   *)
(*               marks the order REJECTED but raises nothing, so the       *)
(*               manager returns success = TRUE with no broker id          *)
(*   "refused"   validation failed, the adapter is missing, the broker     *)
(*               answered with an HTTP error: success = FALSE, no order    *)
(*   "lost"      the broker keeps the order but the answer did not arrive  *)
(*               (timeout, connection cut): success = FALSE                *)
(*   "raised"    the validation itself raised (a quantity that is not a    *)
(*               number): the exception reaches the caller, no order       *)
(*                                                                         *)
(* No built-in adapter sets order.order_id (only broker_order_id), hence   *)
(* the constant of the modules that read it.                               *)
(***************************************************************************)

Outcomes == {"accepted", "soft", "refused", "lost", "raised"}

\* The broker holds an order after the call.
KeepsOrder(o) == o \in {"accepted", "lost"}

\* OrderResponse.success
Success(o) == o \in {"accepted", "soft"}

\* The call raises instead of returning an OrderResponse.
Raised(o) == o = "raised"

\* OrderResponse.broker_order_id is not None
HasBrokerId(o) == o = "accepted"
=============================================================================
