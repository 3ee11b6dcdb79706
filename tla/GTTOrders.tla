------------------------------ MODULE GTTOrders -----------------------------
(***************************************************************************)
(* Good-till-triggered orders: a monitor task sweeps the active GTTs every *)
(* 5 s, expires the overdue ones and places the order of every GTT whose   *)
(* trigger the last known price has reached.                               *)
(*                                                                         *)
(* The sweep holds the service's lock from its first to its last GTT, over *)
(* every await of place_order, and no request keeps the lock over an       *)
(* await: so create, cancel and modify are atomic steps of the time        *)
(* between two sweeps, and the monitor takes the lock as soon as it wakes. *)
(* update_price takes no lock.  The sweep's clock is read once, when it    *)
(* starts: late[g] is utcnow() > g.expires_at at that moment.              *)
(*                                                                         *)
(* OCO_LIMIT orders differ from OCO ones in the order's price alone, so    *)
(* "OCO" stands for both.                                                  *)
(***************************************************************************)
EXTENDS Naturals, Sequences, PlaceOrder

CONSTANTS GTTs,            \* the ids the service may hand out
          Symbols,
          Prices,          \* prices and trigger prices
          BadTriggers,     \* trigger prices that are not numbers
          MaxConditions,   \* bound on the conditions of a SINGLE order
          MaxValidity,     \* MAX_VALIDITY_DAYS
          Validities,      \* the validity_days requests ask for
          Unknown          \* no price yet, no trigger

ASSUME PricesAreNumbers == Prices \subseteq Nat
ASSUME ValiditiesAreDays == Validities \subseteq Nat /\ MaxValidity \in Nat
ASSUME NotNumbers == /\ Unknown \notin Prices \union BadTriggers
                     /\ BadTriggers \intersect Prices = {}
ASSUME SomeSymbol == Symbols # {}
ASSUME TwoConditions == MaxConditions \in Nat /\ MaxConditions >= 2

GTTStatus == {"ACTIVE", "TRIGGERED", "EXECUTED", "CANCELLED", "EXPIRED", "REJECTED"}
Absent == "ABSENT"
GTTType == {"SINGLE", "OCO"}
Sides == {"BUY", "SELL"}

Indices == 1..MaxConditions
Triggers == Prices \union BadTriggers
\* trigger_price of each condition, in order; the rest is Unknown.
Conditions == [Indices -> Triggers \union {Unknown}]
ListOf(n) == {c \in Conditions : \A i \in Indices : (i <= n) <=> (c[i] # Unknown)}
\* What create_gtt and modify_gtt accept: OCO orders have exactly two
\* conditions, the others any positive number.
ConditionLists(type) ==
    IF type = "OCO" THEN ListOf(2) ELSE UNION {ListOf(n) : n \in Indices}

NoConditions == [i \in Indices |-> Unknown]

VARIABLES status,    \* gtt.status
          type,      \* gtt.gtt_type
          side,      \* gtt.action
          symbol,    \* gtt.symbol
          trigger,   \* gtt.conditions[i].trigger_price
          fired,     \* the i for which gtt.conditions[i].triggered_at is set
          validity,  \* gtt.validity_days
          overdue,   \* utcnow() > gtt.expires_at
          book,      \* the keys of _gtt_orders in order of creation
          price,     \* _price_cache
          monitor,   \* "asleep", "sweeping", "stopped"
          todo,      \* GTTs the sweep has yet to visit
          late,      \* GTTs overdue when the sweep started
          firing,    \* conditions of Head(todo) still to be executed, in order
          orders     \* orders the broker keeps on behalf of the GTT

request == <<type, side, symbol, trigger, validity>>
vars == <<status, request, fired, overdue, book, price, monitor, todo, late,
          firing, orders>>

TypeOK ==
    /\ status \in [GTTs -> GTTStatus \union {Absent}]
    /\ type \in [GTTs -> GTTType]
    /\ side \in [GTTs -> Sides]
    /\ symbol \in [GTTs -> Symbols]
    /\ trigger \in [GTTs -> Conditions]
    /\ fired \in [GTTs -> SUBSET Indices]
    /\ validity \in [GTTs -> Validities \union {0}]
    /\ overdue \in [GTTs -> BOOLEAN]
    /\ book \in Seq(GTTs)
    /\ price \in [Symbols -> Prices \union {Unknown}]
    /\ monitor \in {"asleep", "sweeping", "stopped"}
    /\ todo \in Seq(GTTs)
    /\ late \in SUBSET GTTs
    /\ firing \in SUBSET Indices
    /\ orders \in [GTTs -> Nat]

Init ==
    /\ status = [g \in GTTs |-> Absent]
    /\ type = [g \in GTTs |-> "SINGLE"]
    /\ side = [g \in GTTs |-> "BUY"]
    /\ symbol = [g \in GTTs |-> CHOOSE s \in Symbols : TRUE]
    /\ trigger = [g \in GTTs |-> NoConditions]
    /\ fired = [g \in GTTs |-> {}]
    /\ validity = [g \in GTTs |-> 0]
    /\ overdue = [g \in GTTs |-> FALSE]
    /\ book = <<>>
    /\ price = [s \in Symbols |-> Unknown]
    /\ monitor = "asleep"
    /\ todo = <<>>
    /\ late = {}
    /\ firing = {}
    /\ orders = [g \in GTTs |-> 0]
-----------------------------------------------------------------------------
(* Requests.  Those made during a sweep wait for its end.                  *)

CreateGTT(g, t, d, s, c, days) ==
    /\ monitor = "asleep"
    /\ status[g] = Absent
    /\ days <= MaxValidity
    /\ c \in ConditionLists(t)
    /\ status' = [status EXCEPT ![g] = "ACTIVE"]
    /\ type' = [type EXCEPT ![g] = t]
    /\ side' = [side EXCEPT ![g] = d]
    /\ symbol' = [symbol EXCEPT ![g] = s]
    /\ trigger' = [trigger EXCEPT ![g] = c]
    /\ validity' = [validity EXCEPT ![g] = days]
    /\ book' = Append(book, g)
    /\ UNCHANGED <<fired, overdue, price, monitor, todo, late, firing, orders>>

Bug_CancelAny(g) == status[g] # Absent
Cancellable(g) == status[g] = "ACTIVE"

CancelGTT(g) ==
    /\ monitor = "asleep"
    /\ Cancellable(g)
    /\ status' = [status EXCEPT ![g] = "CANCELLED"]
    /\ UNCHANGED <<request, fired, overdue, book, price, monitor, todo, late,
                   firing, orders>>

\* New conditions have not fired.
ModifyConditions(g, c) ==
    /\ monitor = "asleep"
    /\ status[g] = "ACTIVE"
    /\ c \in ConditionLists(type[g])
    /\ trigger' = [trigger EXCEPT ![g] = c]
    /\ fired' = [fired EXCEPT ![g] = {}]
    /\ UNCHANGED <<status, type, side, symbol, validity, overdue, book, price,
                   monitor, todo, late, firing, orders>>

\* A new validity counts from now, and is not checked against MaxValidity.
ModifyValidity(g, days) ==
    /\ monitor = "asleep"
    /\ status[g] = "ACTIVE"
    /\ days # 0
    /\ validity' = [validity EXCEPT ![g] = days]
    /\ overdue' = [overdue EXCEPT ![g] = FALSE]
    /\ UNCHANGED <<status, type, side, symbol, trigger, fired, book, price,
                   monitor, todo, late, firing, orders>>

UpdatePrice(s, p) ==
    /\ monitor # "stopped"
    /\ price' = [price EXCEPT ![s] = p]
    /\ UNCHANGED <<status, request, fired, overdue, book, monitor, todo, late,
                   firing, orders>>

DeadlinePasses(g) ==
    /\ status[g] # Absent
    /\ ~overdue[g]
    /\ overdue' = [overdue EXCEPT ![g] = TRUE]
    /\ UNCHANGED <<status, request, fired, book, price, monitor, todo, late,
                   firing, orders>>
-----------------------------------------------------------------------------
(* The monitor.  One step per GTT it visits; a visit that places orders    *)
(* takes one more step per order.                                          *)

SweepStarts ==
    /\ monitor = "asleep"
    /\ monitor' = "sweeping"
    /\ todo' = book
    /\ late' = {g \in GTTs : overdue[g]}
    /\ UNCHANGED <<status, request, fired, overdue, book, price, firing, orders>>

SweepEnds ==
    /\ monitor = "sweeping"
    /\ todo = <<>>
    /\ monitor' = "asleep"
    /\ late' = {}
    /\ UNCHANGED <<status, request, fired, overdue, book, price, todo, firing, orders>>

Visits(g) == /\ monitor = "sweeping"
             /\ todo # <<>>
             /\ g = Head(todo)
             /\ firing = {}

Bug_WatchesDone(g) == status[g] # "CANCELLED"
Watches(g) == status[g] = "ACTIVE"

Bug_ExpiresIfPriced(g) == g \in late /\ price[symbol[g]] # Unknown
Expires(g) == g \in late

Bug_HitsBeyond(g) ==
    LET p == price[symbol[g]] IN
    {i \in Indices \ fired[g] :
        /\ trigger[g][i] \in Prices
        /\ \/ side[g] = "BUY" /\ p < trigger[g][i]
           \/ side[g] = "SELL" /\ p > trigger[g][i]}
\* The conditions the current price meets.
Hits(g) ==
    LET p == price[symbol[g]] IN
    {i \in Indices \ fired[g] :
        /\ trigger[g][i] \in Prices
        /\ \/ side[g] = "BUY" /\ p <= trigger[g][i]
           \/ side[g] = "SELL" /\ p >= trigger[g][i]}

\* Comparing a price with a trigger that is not a number raises an exception.
Raises(g) == \E i \in Indices \ fired[g] : trigger[g][i] \in BadTriggers

First(S) == CHOOSE i \in S : \A j \in S : i <= j

\* What a hit executes: the first condition of an OCO order, every condition
\* that was hit of another.
Bug_FireAll(g, hits) == hits
Fires(g, hits) == IF type[g] = "OCO" THEN {First(hits)} ELSE hits

\* An OCO order marks both conditions, another the one being executed.
Marks(g, i) == IF type[g] = "OCO" THEN {j \in Indices : trigger[g][j] # Unknown}
                                  ELSE fired[g] \union {i}

VisitExpires(g) ==
    /\ Visits(g)
    /\ Watches(g)
    /\ Expires(g)
    /\ status' = [status EXCEPT ![g] = "EXPIRED"]
    /\ todo' = Tail(todo)
    /\ UNCHANGED <<request, fired, overdue, book, price, monitor, late, firing, orders>>

\* The GTT is done, or its symbol has no price yet, or no condition is met.
VisitPasses(g) ==
    /\ Visits(g)
    /\ \/ ~Watches(g)
       \/ /\ Watches(g)
          /\ ~Expires(g)
          /\ price[symbol[g]] # Unknown => ~Raises(g) /\ Hits(g) = {}
    /\ todo' = Tail(todo)
    /\ UNCHANGED <<status, request, fired, overdue, book, price, monitor, late,
                   firing, orders>>

Examines(g) == /\ Visits(g)
               /\ Watches(g)
               /\ ~Expires(g)
               /\ price[symbol[g]] # Unknown

\* The loop catches the exception and sleeps: the rest of the book is not
\* visited.
VisitRaises(g) ==
    /\ Examines(g)
    /\ Raises(g)
    /\ monitor' = "asleep"
    /\ todo' = <<>>
    /\ late' = {}
    /\ UNCHANGED <<status, request, fired, overdue, book, price, firing, orders>>

\* Up to the await of the first order.
VisitTriggers(g) ==
    /\ Examines(g)
    /\ ~Raises(g)
    /\ Hits(g) # {}
    /\ status' = [status EXCEPT ![g] = "TRIGGERED"]
    /\ firing' = Fires(g, Hits(g))
    /\ fired' = [fired EXCEPT ![g] = Marks(g, First(Hits(g)))]
    /\ UNCHANGED <<request, overdue, book, price, monitor, todo, late, orders>>

Bug_KeepTriggered(o) == IF Success(o) THEN "EXECUTED" ELSE "TRIGGERED"
StatusAfter(o) == IF Success(o) THEN "EXECUTED" ELSE "REJECTED"

\* The order has its answer.  The next condition, if any, goes on to its own
\* order, which makes the GTT TRIGGERED again before anybody can look.
PlaceReturns(g, o) ==
    /\ monitor = "sweeping"
    /\ firing # {}
    /\ g = Head(todo)
    /\ orders' = IF KeepsOrder(o) THEN [orders EXCEPT ![g] = @ + 1] ELSE orders
    /\ firing' = firing \ {First(firing)}
    /\ IF firing' = {}
         THEN /\ status' = [status EXCEPT ![g] = StatusAfter(o)]
              /\ todo' = Tail(todo)
              /\ UNCHANGED fired
         ELSE /\ status' = [status EXCEPT ![g] = "TRIGGERED"]
              /\ fired' = [fired EXCEPT ![g] = Marks(g, First(firing'))]
              /\ UNCHANGED todo
    /\ UNCHANGED <<request, overdue, book, price, monitor, late>>

\* Shutdown cancels the monitor where it waits.  An order being placed is at
\* the broker or is not, and the GTT keeps the status it has.
Stop ==
    /\ monitor # "stopped"
    /\ monitor' = "stopped"
    /\ \/ UNCHANGED orders
       \/ firing # {} /\ orders' = [orders EXCEPT ![Head(todo)] = @ + 1]
    /\ todo' = <<>>
    /\ firing' = {}
    /\ late' = {}
    /\ UNCHANGED <<status, request, fired, overdue, book, price>>
-----------------------------------------------------------------------------
Monitors(g) == \/ VisitExpires(g)
               \/ VisitPasses(g)
               \/ VisitRaises(g)
               \/ VisitTriggers(g)
               \/ \E o \in Outcomes : PlaceReturns(g, o)

Requests(g) ==
    \/ \E t \in GTTType, d \in Sides, s \in Symbols, days \in Validities :
          \E c \in ConditionLists(t) : CreateGTT(g, t, d, s, c, days)
    \/ CancelGTT(g)
    \/ \E c \in ConditionLists(type[g]) : ModifyConditions(g, c)
    \/ \E days \in Validities : ModifyValidity(g, days)

Next == \/ \E g \in GTTs : Requests(g) \/ DeadlinePasses(g) \/ Monitors(g)
        \/ \E s \in Symbols, p \in Prices : UpdatePrice(s, p)
        \/ SweepStarts
        \/ SweepEnds
        \/ Stop

\* The event loop runs the monitor, whose sleeps and orders all end.
Fairness == /\ WF_vars(SweepStarts)
            /\ WF_vars(SweepEnds)
            /\ \A g \in GTTs : WF_vars(Monitors(g))

Spec == Init /\ [][Next]_vars /\ Fairness
-----------------------------------------------------------------------------
\* One cancels the other: whatever prices do between the orders and the
\* answers, an OCO order never leaves two orders at the broker.
OneOrderPerOCO == \A g \in GTTs : type[g] = "OCO" => orders[g] <= 1

\* A GTT that is still waiting, or was cancelled or expired, has fired no
\* condition and left nothing at the broker.
UntriggeredIsUntouched ==
    \A g \in GTTs : status[g] \in {"ACTIVE", "CANCELLED", "EXPIRED"} =>
                        orders[g] = 0 /\ fired[g] = {}

\* A GTT is TRIGGERED only while the sweep is placing its orders, so every
\* trigger is answered by EXECUTED or REJECTED while the service runs.
TriggeredIsBeingPlaced ==
    \A g \in GTTs : status[g] = "TRIGGERED" =>
        \/ monitor = "sweeping" /\ firing # {} /\ Head(todo) = g
        \/ monitor = "stopped"

\* The status of a GTT tells what became of it, whatever fails in a sweep
\* (_execute_triggered_order, cancel_gtt).
StatusIsTrue == UntriggeredIsUntouched /\ TriggeredIsBeingPlaced

\* What is done stays done: no later sweep, price or request changes the
\* status of a GTT that ended, nor places another order for it.
DoneIsDone ==
    [][\A g \in GTTs :
          status[g] \in {"EXECUTED", "REJECTED", "CANCELLED", "EXPIRED"} =>
              UNCHANGED <<status[g], fired[g], orders[g]>>]_vars

\* A GTT that places one order at most: of an OCO order the first condition to be
\* met, or the only one of another.
OneShot(g) == \/ type[g] = "OCO"
              \/ \A i, j \in Indices :
                    trigger[g][i] # Unknown /\ trigger[g][j] # Unknown => i = j

\* What became of a GTT, with the market in the place of who approves: a GTT that
\* waits is open, cancelled or expired it is refused, and triggered it is granted,
\* until its order is answered or the monitor is stopped.
Decision == [g \in GTTs |->
    CASE status[g] = Absent -> "none"
      [] status[g] = "ACTIVE" -> "open"
      [] status[g] \in {"CANCELLED", "EXPIRED"} -> "refused"
      [] status[g] = "TRIGGERED" /\ monitor # "stopped" -> "granted"
      [] OTHER -> "settled"]

\* The orders of the GTTs that place one.
Placed == [g \in GTTs |-> IF OneShot(g) THEN orders[g] ELSE 0]

\* Each GTT is decided once and each trigger leads to one attempt, of one order
\* for those that place one: the GTT service keeps what OrderApproval promises
\* (gtt_orders.py _monitor_loop, _check_and_trigger, cancel_gtt, stop).
Approval == INSTANCE OrderApproval
              WITH Actions <- GTTs, decision <- Decision, orders <- Placed
ImplementsApproval == Approval!Safety

\* "Automatic expiry handling": when a sweep ends, no GTT that was overdue at
\* its start is still ACTIVE, whatever happened to the GTTs visited before.
SweepExpiresLate ==
    [][monitor = "sweeping" /\ monitor' = "asleep" =>
          \A g \in late : status'[g] # "ACTIVE"]_vars

\* Every trigger price is a number.
Clean == \A g \in GTTs, i \in Indices : trigger[g][i] \notin BadTriggers

\* As long as all triggers are numbers, sweeps keep coming: a GTT past its
\* deadline does not stay ACTIVE, unless its validity is renewed or the service
\* stops (_monitor_loop).
OverdueExpires ==
    []Clean =>
    \A g \in GTTs :
        (status[g] = "ACTIVE" /\ overdue[g]) ~>
            (status[g] # "ACTIVE" \/ ~overdue[g] \/ monitor = "stopped")

\* And a GTT whose trigger the price has reached, and keeps reaching, does not
\* stay ACTIVE (_check_and_trigger).
TriggersFire ==
    []Clean =>
    \A g \in GTTs :
        []<>~(/\ status[g] = "ACTIVE"
              /\ monitor # "stopped"
              /\ price[symbol[g]] \in Prices
              /\ \E i \in Indices :
                    /\ trigger[g][i] \in Prices
                    /\ \/ side[g] = "BUY" /\ price[symbol[g]] <= trigger[g][i]
                       \/ side[g] = "SELL" /\ price[symbol[g]] >= trigger[g][i])
=============================================================================
