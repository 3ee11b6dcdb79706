----------------------------- MODULE SmartOrders ----------------------------
(***************************************************************************)
(* Smart orders: an order is blocked when the same one succeeded within    *)
(* the duplicate window of the request, and cut to the largest position    *)
(* the request allows.                                                     *)
(*                                                                         *)
(* One lock is held from the check to the answer of the broker, and with   *)
(* it _recent_orders, which keeps the time of the last success per key.    *)
(* The key holds the quantity: the one asked for when it is looked up, the *)
(* one placed when it is recorded.  The other parts of the key tell orders *)
(* apart that have nothing to do with each other, and are left out.        *)
(*                                                                         *)
(* A time is an age that Tick increments.  No position is ever known:      *)
(* _get_position returns None.                                             *)
(***************************************************************************)
EXTENDS Naturals, PlaceOrder

CONSTANTS Requests,
          Quantities,
          Windows,     \* duplicate_window_seconds
          Limit,       \* max_position_size of the requests that have one
          Oldest,      \* age from which no window reaches, a bound
          Nobody

VARIABLES at,       \* "idle", "waiting", "placing", "blocked", "executed", "rejected"
          ask,      \* what each request asks for
          holder,   \* the request that holds _lock
          recent,   \* _recent_orders: the age of each key, Oldest if it is not there
          age,      \* time since the success of each request
          purged    \* successes whose key was deleted while a window reached it

vars == <<at, ask, holder, recent, age, purged>>

\* What a request asks for, in the ways that make a difference: a limit above
\* the quantity is none, and the window of an unchecked request is not read.
Ask == {a \in [quantity : Quantities, window : Windows, limited : BOOLEAN, check : BOOLEAN] :
            /\ a.limited => a.quantity > Limit
            /\ \A w \in Windows : ~a.check => a.window <= w}

TypeOK ==
    /\ at \in [Requests -> {"idle", "waiting", "placing", "blocked", "executed", "rejected"}]
    /\ ask \in [Requests -> Ask]
    /\ holder \in Requests \union {Nobody}
    /\ recent \in [Quantities -> 0..Oldest]
    /\ age \in [Requests -> 0..Oldest]
    /\ purged \subseteq Requests

Init ==
    /\ at = [r \in Requests |-> "idle"]
    /\ ask \in [Requests -> Ask]
    /\ holder = Nobody
    /\ recent = [q \in Quantities |-> Oldest]
    /\ age = [r \in Requests |-> Oldest]
    /\ purged = {}
-----------------------------------------------------------------------------
\* _calculate_adjusted_quantity without a position.
Placed(r) == IF ask[r].limited /\ ask[r].quantity > Limit THEN Limit ELSE ask[r].quantity

Arrive(r) ==
    /\ at[r] = "idle"
    /\ at' = [at EXCEPT ![r] = "waiting"]
    /\ UNCHANGED <<ask, holder, recent, age, purged>>

\* Every key outside this request's window goes, whatever the window of others.
Purge(r) == [q \in Quantities |-> IF recent[q] >= ask[r].window THEN Oldest ELSE recent[q]]

Bug_NeverDuplicate(r) == FALSE
IsDuplicate(r) == ask[r].check /\ recent[ask[r].quantity] < ask[r].window

Purged(r) == {p \in Requests : /\ ask[r].check
                               /\ at[p] = "executed"
                               /\ ask[r].window <= age[p] /\ age[p] < Oldest}

\* The lock is free: check, adjust, and send the order or answer.
CheckRequest(r) ==
    /\ at[r] = "waiting"
    /\ holder = Nobody
    /\ recent' = IF ask[r].check THEN Purge(r) ELSE recent
    /\ purged' = purged \union Purged(r)
    /\ IF IsDuplicate(r)
         THEN /\ at' = [at EXCEPT ![r] = "blocked"]
              /\ UNCHANGED holder
         ELSE /\ at' = [at EXCEPT ![r] = "placing"]
              /\ holder' = r
    /\ UNCHANGED <<ask, age>>

Bug_RecordsFailures(o) == o # "raised"
Records(o) == Success(o)

OrderReturns(r, o) ==
    /\ holder = r
    /\ holder' = Nobody
    /\ at' = [at EXCEPT ![r] = IF Success(o) THEN "executed" ELSE "rejected"]
    /\ recent' = IF Records(o) THEN [recent EXCEPT ![Placed(r)] = 0] ELSE recent
    /\ age' = IF Success(o) THEN [age EXCEPT ![r] = 0] ELSE age
    /\ UNCHANGED <<ask, purged>>

Tick ==
    /\ \E r \in Requests : age[r] < Oldest
    /\ recent' = [q \in Quantities |-> IF recent[q] < Oldest THEN recent[q] + 1 ELSE Oldest]
    /\ age' = [r \in Requests |-> IF age[r] < Oldest THEN age[r] + 1 ELSE Oldest]
    /\ UNCHANGED <<at, ask, holder, purged>>

Next ==
    \/ \E r \in Requests : \/ Arrive(r) \/ CheckRequest(r)
                           \/ \E o \in Outcomes : OrderReturns(r, o)
    \/ Tick

Spec == Init /\ [][Next]_vars
-----------------------------------------------------------------------------
InWindow(p, r) == at[p] = "executed" /\ age[p] < ask[r].window

\* A checked request is sent to the broker although the same one succeeded
\* within its window only if that one was cut to its limit, so that its key is
\* another, or if a request with a shorter window threw the key away.
DuplicatesAreBlocked ==
    [][\A r, p \in Requests :
          /\ at[r] = "waiting" /\ at'[r] = "placing" /\ ask[r].check
          /\ InWindow(p, r)
          /\ ask[p].quantity = ask[r].quantity
          => Placed(p) # ask[p].quantity \/ p \in purged]_vars

\* No request is blocked unless an order of its quantity did go through within
\* its window: a failed one may be tried again at once.
BlockedForAReason ==
    [][\A r \in Requests :
          at[r] = "waiting" /\ at'[r] = "blocked" =>
              \E p \in Requests : InWindow(p, r) /\ Placed(p) = ask[r].quantity]_vars
=============================================================================
