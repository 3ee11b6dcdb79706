---------------------------- MODULE OrderApproval ---------------------------
(***************************************************************************)
(* What the action center promises of each action, whatever the handlers,  *)
(* the lock and the clock do: an action is opened once and decided once,   *)
(* an approval leads to one attempt to place one order, whose outcome      *)
(* settles the action, and a refused action never reaches the broker.      *)
(***************************************************************************)
EXTENDS Naturals

CONSTANT Actions

VARIABLES decision, \* "none", "open", "refused", "granted", "settled"
          orders    \* orders the broker keeps for the action

vars == <<decision, orders>>

Init == /\ decision = [a \in Actions |-> "none"]
        /\ orders = [a \in Actions |-> 0]

Open(a) == /\ decision[a] = "none"
           /\ decision' = [decision EXCEPT ![a] = "open"]
           /\ UNCHANGED orders

\* A person refuses one action, or the clock refuses all the overdue ones.
Refuse(S) == /\ \A a \in S : decision[a] = "open"
             /\ decision' = [a \in Actions |-> IF a \in S THEN "refused" ELSE decision[a]]
             /\ UNCHANGED orders

Grant(a) == /\ decision[a] = "open"
            /\ decision' = [decision EXCEPT ![a] = "granted"]
            /\ UNCHANGED orders

\* The one attempt leaves an order at the broker or does not.
Settle(a) == /\ decision[a] = "granted"
             /\ decision' = [decision EXCEPT ![a] = "settled"]
             /\ \/ orders' = [orders EXCEPT ![a] = @ + 1]
                \/ UNCHANGED orders

Next == \/ \E a \in Actions : Open(a) \/ Grant(a) \/ Settle(a)
        \/ \E S \in (SUBSET Actions) \ {{}} : Refuse(S)

Safety == Init /\ [][Next]_vars

\* A granted action is settled: approving is not a promise left hanging.
Spec == Safety /\ \A a \in Actions : WF_vars(Settle(a))
=============================================================================
