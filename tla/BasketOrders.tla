----------------------------- MODULE BasketOrders ---------------------------
(***************************************************************************)
(* Basket orders: several legs placed one after the other or all at once,  *)
(* atomic (all or none, with rollback) or not.                             *)
(*                                                                         *)
(* execute_basket takes the service's lock only to move the basket from    *)
(* PENDING to IN_PROGRESS; it places the legs and rolls them back without  *)
(* it.  cancel_basket holds the lock over all its awaits, so the executor  *)
(* of a basket and its canceller interleave at every order they place and  *)
(* cancel, and neither looks at what the other does to the status.         *)
(*                                                                         *)
(* Both cancel only legs with an order_id, which the built-in adapters     *)
(* never set: AdapterSetsOrderId tells them from the adapters of plugins.  *)
(* Both ignore the answer of cancel_order.                                 *)
(***************************************************************************)
EXTENDS Naturals, PlaceOrder

CONSTANTS Baskets,             \* the ids the service may hand out
          NumLegs,             \* legs of a basket
          AdapterSetsOrderId,
          Nobody               \* no basket

ASSUME BasketAssumptions == /\ NumLegs \in Nat
                            /\ AdapterSetsOrderId \in BOOLEAN
                            /\ Nobody \notin Baskets

BasketStatus == {"PENDING", "IN_PROGRESS", "PARTIAL", "COMPLETED", "FAILED",
                 "CANCELLED"}
Absent == "ABSENT"
LegStatus == {"pending", "completed", "failed", "skipped", "cancelled"}
Legs == 1..NumLegs
Positions == 1..(NumLegs + 1)   \* NumLegs + 1: past the last leg

VARIABLES status,   \* basket.status
          parallel, \* basket.execution_mode = "parallel"
          atomic,   \* basket.atomic
          leg,      \* leg[b][i]: basket.legs[i].status
          orderId,  \* the legs whose order_id is set
          live,     \* the legs whose order the broker keeps
          sent,     \* how many times each leg was given to place_order
          flying,   \* the legs whose place_order is awaited
          exec,     \* execute_basket: "none", "placing", "rolling", "done"
          pos,      \* where its loop over the legs is
          holder,   \* the basket whose cancel_basket holds _lock, or Nobody
          cpos      \* where that loop over the legs is

basket == <<status, parallel, atomic, leg, orderId, live, sent, flying>>
vars == <<basket, exec, pos, holder, cpos>>

TypeOK ==
    /\ status \in [Baskets -> BasketStatus \union {Absent}]
    /\ parallel \in [Baskets -> BOOLEAN]
    /\ atomic \in [Baskets -> BOOLEAN]
    /\ leg \in [Baskets -> [Legs -> LegStatus]]
    /\ orderId \in [Baskets -> SUBSET Legs]
    /\ live \in [Baskets -> SUBSET Legs]
    /\ sent \in [Baskets -> [Legs -> Nat]]
    /\ flying \in [Baskets -> SUBSET Legs]
    /\ exec \in [Baskets -> {"none", "placing", "rolling", "done"}]
    /\ pos \in [Baskets -> Positions]
    /\ holder \in Baskets \union {Nobody}
    /\ cpos \in Positions

Init ==
    /\ status = [b \in Baskets |-> Absent]
    /\ parallel = [b \in Baskets |-> FALSE]
    /\ atomic = [b \in Baskets |-> TRUE]
    /\ leg = [b \in Baskets |-> [i \in Legs |-> "pending"]]
    /\ orderId = [b \in Baskets |-> {}]
    /\ live = [b \in Baskets |-> {}]
    /\ sent = [b \in Baskets |-> [i \in Legs |-> 0]]
    /\ flying = [b \in Baskets |-> {}]
    /\ exec = [b \in Baskets |-> "none"]
    /\ pos = [b \in Baskets |-> 1]
    /\ holder = Nobody
    /\ cpos = 1
-----------------------------------------------------------------------------
CreateBasket(b, par, ato) ==
    /\ holder = Nobody
    /\ status[b] = Absent
    /\ status' = [status EXCEPT ![b] = "PENDING"]
    /\ parallel' = [parallel EXCEPT ![b] = par]
    /\ atomic' = [atomic EXCEPT ![b] = ato]
    /\ UNCHANGED <<leg, orderId, live, sent, flying, exec, pos, holder, cpos>>

Bug_StartUnfinished(b) == status[b] \in {"PENDING", "CANCELLED"}
Startable(b) == status[b] = "PENDING"

\* The legs S go to place_order.
Send(b, S) ==
    /\ flying' = [flying EXCEPT ![b] = @ \union S]
    /\ sent' = [sent EXCEPT ![b] = [i \in Legs |-> @[i] + IF i \in S THEN 1 ELSE 0]]

\* In parallel mode every leg is sent before anything else can happen.
ExecuteBasket(b) ==
    /\ holder = Nobody
    /\ Startable(b)
    /\ status' = [status EXCEPT ![b] = "IN_PROGRESS"]
    /\ exec' = [exec EXCEPT ![b] = "placing"]
    /\ IF parallel[b] THEN /\ Send(b, Legs)
                           /\ pos' = [pos EXCEPT ![b] = NumLegs + 1]
                      ELSE /\ pos' = [pos EXCEPT ![b] = 1]
                           /\ UNCHANGED <<flying, sent>>
    /\ UNCHANGED <<parallel, atomic, leg, orderId, live, holder, cpos>>

\* The sequential loop is free to take the next leg.
AtLeg(b) == exec[b] = "placing" /\ flying[b] = {} /\ pos[b] <= NumLegs

Bug_NeverSkips(b) == FALSE
Skips(b) == atomic[b] /\ \E i \in Legs : i < pos[b] /\ leg[b][i] = "failed"

SkipLeg(b) ==
    /\ AtLeg(b)
    /\ Skips(b)
    /\ leg' = [leg EXCEPT ![b][pos[b]] = "skipped"]
    /\ pos' = [pos EXCEPT ![b] = @ + 1]
    /\ UNCHANGED <<status, parallel, atomic, orderId, live, sent, flying, exec,
                   holder, cpos>>

PlaceLeg(b) ==
    /\ AtLeg(b)
    /\ ~Skips(b)
    /\ Send(b, {pos[b]})
    /\ UNCHANGED <<status, parallel, atomic, leg, orderId, live, exec, pos,
                   holder, cpos>>

\* Where the sequential loop goes after an answer: a leg that fails stops an
\* atomic basket (break), unless it raised, which only skips the legs behind.
After(b, o) ==
    IF atomic[b] /\ ~Success(o) /\ ~Raised(o) THEN NumLegs + 1 ELSE pos[b] + 1

Bug_FailureForgotten(o) == IF Raised(o) THEN "pending"
                           ELSE IF Success(o) THEN "completed" ELSE "failed"
LegAfter(o) == IF Success(o) THEN "completed" ELSE "failed"

LegReturns(b, i, o) ==
    /\ i \in flying[b]
    /\ flying' = [flying EXCEPT ![b] = @ \ {i}]
    /\ leg' = [leg EXCEPT ![b][i] = LegAfter(o)]
    /\ live' = IF KeepsOrder(o) THEN [live EXCEPT ![b] = @ \union {i}] ELSE live
    /\ orderId' = IF HasBrokerId(o) /\ AdapterSetsOrderId
                    THEN [orderId EXCEPT ![b] = @ \union {i}] ELSE orderId
    /\ pos' = IF parallel[b] THEN pos ELSE [pos EXCEPT ![b] = After(b, o)]
    /\ UNCHANGED <<status, parallel, atomic, sent, exec, holder, cpos>>

Failed(b) == \E i \in Legs : leg[b][i] = "failed"

Bug_WaitsForAll(b) == /\ exec[b] = "placing" /\ flying[b] = {}
                      /\ \A i \in Legs : leg[b][i] # "pending"
Placed(b) == exec[b] = "placing" /\ flying[b] = {} /\ pos[b] = NumLegs + 1

\* What execute_basket makes of the legs.
Verdict(b) == IF Failed(b) THEN "PARTIAL" ELSE "COMPLETED"

FinishBasket(b) ==
    /\ Placed(b)
    /\ ~(Failed(b) /\ atomic[b])
    /\ status' = [status EXCEPT ![b] = Verdict(b)]
    /\ exec' = [exec EXCEPT ![b] = "done"]
    /\ UNCHANGED <<parallel, atomic, leg, orderId, live, sent, flying, pos,
                   holder, cpos>>

StartRollback(b) ==
    /\ Placed(b)
    /\ Failed(b)
    /\ atomic[b]
    /\ exec' = [exec EXCEPT ![b] = "rolling"]
    /\ pos' = [pos EXCEPT ![b] = 1]
    /\ UNCHANGED <<basket, holder, cpos>>

\* One turn of a loop that cancels: leg i if it is completed and its order is
\* known; ok is whether the broker cancels, which nobody looks at.
Bug_CancelsFirst(b, i) == i = 1 /\ leg[b][i] = "completed" /\ i \in orderId[b]
Cancels(b, i) == leg[b][i] = "completed" /\ i \in orderId[b]

CancelTurn(b, i, ok) ==
    /\ leg' = IF Cancels(b, i) THEN [leg EXCEPT ![b][i] = "cancelled"] ELSE leg
    /\ live' = IF Cancels(b, i) /\ ok THEN [live EXCEPT ![b] = @ \ {i}] ELSE live

RollbackLeg(b, ok) ==
    /\ exec[b] = "rolling"
    /\ pos[b] <= NumLegs
    /\ CancelTurn(b, pos[b], ok)
    /\ pos' = [pos EXCEPT ![b] = @ + 1]
    /\ UNCHANGED <<status, parallel, atomic, orderId, sent, flying, exec,
                   holder, cpos>>

FinishRollback(b) ==
    /\ exec[b] = "rolling"
    /\ pos[b] = NumLegs + 1
    /\ status' = [status EXCEPT ![b] = "FAILED"]
    /\ exec' = [exec EXCEPT ![b] = "done"]
    /\ UNCHANGED <<parallel, atomic, leg, orderId, live, sent, flying, pos,
                   holder, cpos>>

CancelBasket(b) ==
    /\ holder = Nobody
    /\ status[b] \in {"PENDING", "IN_PROGRESS"}
    /\ holder' = b
    /\ cpos' = 1
    /\ UNCHANGED <<basket, exec, pos>>

Bug_StartsOver(ok) == IF ok THEN cpos + 1 ELSE 1
NextTurn(ok) == cpos + 1

CancelLeg(b, ok) ==
    /\ holder = b
    /\ cpos <= NumLegs
    /\ CancelTurn(b, cpos, ok)
    /\ cpos' = NextTurn(ok)
    /\ UNCHANGED <<status, parallel, atomic, orderId, sent, flying, exec, pos,
                   holder>>

FinishCancel(b) ==
    /\ holder = b
    /\ cpos = NumLegs + 1
    /\ status' = [status EXCEPT ![b] = "CANCELLED"]
    /\ holder' = Nobody
    /\ cpos' = 1
    /\ UNCHANGED <<parallel, atomic, leg, orderId, live, sent, flying, exec, pos>>
-----------------------------------------------------------------------------
Executes(b) == \/ SkipLeg(b)
               \/ PlaceLeg(b)
               \/ \E i \in Legs, o \in Outcomes : LegReturns(b, i, o)
               \/ FinishBasket(b)
               \/ StartRollback(b)
               \/ \E ok \in BOOLEAN : RollbackLeg(b, ok)
               \/ FinishRollback(b)

Cancelling(b) == (\E ok \in BOOLEAN : CancelLeg(b, ok)) \/ FinishCancel(b)

Next == \E b \in Baskets :
          \/ \E par, ato \in BOOLEAN : CreateBasket(b, par, ato)
          \/ ExecuteBasket(b)
          \/ CancelBasket(b)
          \/ Executes(b)
          \/ Cancelling(b)

\* The calls in progress go on: every order placed or cancelled is answered or
\* times out.
Fairness == \A b \in Baskets : WF_vars(Executes(b)) /\ WF_vars(Cancelling(b))

Spec == Init /\ [][Next]_vars /\ Fairness
-----------------------------------------------------------------------------
\* No leg is placed twice, whatever calls of execute and cancel interleave.
LegsPlacedOnce == \A b \in Baskets : \A i \in Legs : sent[b][i] <= 1

\* A sequential atomic basket places nothing after its first failed leg.
NothingAfterFailure ==
    \A b \in Baskets : atomic[b] /\ ~parallel[b] =>
        \A i, j \in Legs : i < j /\ leg[b][i] = "failed" => sent[b][j] = 0

\* A basket says COMPLETED only when no leg was refused or left out, and
\* PARTIAL only when some were, and it was not atomic.
VerdictIsTrue ==
    \A b \in Baskets :
        /\ status[b] = "COMPLETED" =>
              \A i \in Legs : leg[b][i] \in {"completed", "cancelled"}
        /\ status[b] = "PARTIAL" => ~atomic[b] /\ Failed(b)

\* When a failed atomic basket is done, whoever cancelled it meanwhile, exactly the
\* legs whose order_id is known were asked to be cancelled: a leg without one stays
\* completed.
RollbackIsExact ==
    \A b \in Baskets : status[b] = "FAILED" /\ exec[b] = "done" =>
        \A i \in Legs : /\ leg[b][i] = "completed" => i \notin orderId[b]
                        /\ leg[b][i] = "cancelled" => i \in orderId[b]

\* Atomic means all or none: when a failed atomic basket is done, each leg
\* whose order the service got an answer for was asked to be cancelled.  It
\* needs adapters that set order_id.
RollbackIsComplete ==
    \A b \in Baskets : status[b] = "FAILED" /\ exec[b] = "done" =>
        \A i \in live[b] : leg[b][i] # "completed"

\* Once cancelled, a basket stays cancelled and places nothing more.
CancelledIsFinal ==
    [][\A b \in Baskets : status[b] = "CANCELLED" =>
          status'[b] = "CANCELLED" /\ sent'[b] = sent[b]]_vars

\* Every execution ends, whether or not somebody cancels it meanwhile, and a
\* cancellation gives the lock back (execute_basket, cancel_basket).
CallsEnd ==
    \A b \in Baskets : /\ (exec[b] = "placing") ~> (exec[b] = "done")
                       /\ (holder = b) ~> (holder # b)
=============================================================================
