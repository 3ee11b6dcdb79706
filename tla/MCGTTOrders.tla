----------------------------- MODULE MCGTTOrders ----------------------------
(* GTT orders on one symbol; the bounds are in the cfgs.                   *)
EXTENDS GTTOrders

CONSTANT Other   \* a GTT that has one condition

\* GTTs meet in nothing but the sweep, so one of them may be simple; and to buy
\* at or below a price mirrors to sell at or above it.
Small == \A g \in GTTs : IF g = Other THEN trigger'[g][2] = Unknown ELSE side'[g] = "BUY"

SmallNext == Next /\ Small
SmallSpec == Init /\ [][SmallNext]_vars /\ Fairness
=============================================================================
