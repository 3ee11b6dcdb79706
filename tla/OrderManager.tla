---------------------------- MODULE OrderManager ----------------------------
(***************************************************************************)
(* The order manager: place_order starts one polling task per order whose  *)
(* broker id it learned; the task asks the broker for the status every two *)
(* seconds and sends it to the callbacks that WebSocket clients registered.*)
(* stop() cancels the tasks and waits for them at shutdown, while orders   *)
(* may still be placed (the order splitter's tasks are not stopped).       *)
(*                                                                         *)
(* The tasks interleave at each await: the sleep, the broker's answer, and *)
(* the send to each client.  The manager runs without a database, as       *)
(* main.py creates it.  The order_placed event changes no state and is not *)
(* modelled; modify_order, cancel_order and the getters only talk to the   *)
(* broker, whose orders move by themselves here.  A broker never gives     *)
(* the same id to two orders, so no task replaces another.                 *)
(***************************************************************************)
EXTENDS Sequences, FiniteSets, Naturals, PlaceOrder

CONSTANTS Orders,
          Clients,     \* WebSocket connections
          Statuses,    \* the statuses the adapter reports
          MayMiss      \* a poll may come back without an answer

OrderStatus == {"PENDING", "OPEN", "FILLED", "PARTIALLY_FILLED", "CANCELLED",
                "REJECTED", "EXPIRED"}

ASSUME ManagerAssumptions == /\ Statuses \subseteq OrderStatus
                             /\ MayMiss \in BOOLEAN
                             /\ IsFiniteSet(Orders)

\* No further change can follow.
Final == {"FILLED", "CANCELLED", "REJECTED", "EXPIRED"}

\* What the polling task takes for final: any(ts in current_status ...) looks
\* for FILLED anywhere in the status, which PARTIALLY_FILLED contains.
Ends == Final \union {"PARTIALLY_FILLED"}

None == "NONE"        \* no order, no status yet
Missing == "MISSING"  \* get_order_status returned None

VARIABLES broker,     \* the status of each order at the broker
          task,       \* where the polling task of each order is
          cancelled,  \* the tasks that will see CancelledError at their next step
          registry,   \* the keys of _status_tasks
          seen,       \* what the last poll of each order returned
          at,         \* the next callback that order's task calls
          callbacks,  \* _callbacks['order_status_update']
          online,     \* the clients whose connection is open
          shown,      \* the last status of each order sent to each client
          stopper,    \* stop(): "idle", "waiting", "done" or "raised"
          waited,     \* the tasks stop() has awaited or is awaiting
          size        \* len(_status_tasks) when stop() began to wait

tracking == <<task, cancelled, registry, seen, at, shown>>
clients == <<callbacks, online>>
stopping == <<stopper, waited, size>>
vars == <<broker, tracking, clients, stopping>>

TaskStates == {"none", "new", "sleeping", "asking", "sending", "over"}
Running(o) == task[o] \notin {"none", "over"}

TypeOK ==
    /\ broker \in [Orders -> Statuses \union {None}]
    /\ task \in [Orders -> TaskStates]
    /\ cancelled \subseteq Orders
    /\ registry \subseteq Orders
    /\ seen \in [Orders -> Statuses \union {None, Missing}]
    /\ callbacks \in Seq(Clients)
    /\ at \in [Orders -> Nat]
    /\ \A o \in Orders : at[o] \in 1..(Len(callbacks) + 1)
    /\ online \subseteq Clients
    /\ shown \in [Clients -> [Orders -> Statuses \union {None}]]
    /\ stopper \in {"idle", "waiting", "done", "raised"}
    /\ waited \subseteq Orders
    /\ size \in Nat

Init ==
    /\ broker = [o \in Orders |-> None]
    /\ task = [o \in Orders |-> "none"]
    /\ cancelled = {}
    /\ registry = {}
    /\ seen = [o \in Orders |-> None]
    /\ at = [o \in Orders |-> 1]
    /\ callbacks = << >>
    /\ online = {}
    /\ shown = [c \in Clients |-> [o \in Orders |-> None]]
    /\ stopper = "idle"
    /\ waited = {}
    /\ size = 0
-----------------------------------------------------------------------------
\* The broker moves an order along, or takes a new one with status s.
Rank(s) == CASE s = "PENDING" -> 1 [] s = "OPEN" -> 2
             [] s = "PARTIALLY_FILLED" -> 3 [] OTHER -> 4

BrokerMoves(o, s) ==
    /\ broker[o] # None
    /\ Rank(broker[o]) < Rank(s)
    /\ broker' = [broker EXCEPT ![o] = s]
    /\ UNCHANGED <<tracking, clients, stopping>>

PlaceOrder(o, out, s) ==
    /\ broker[o] = None
    /\ KeepsOrder(out)
    /\ broker' = [broker EXCEPT ![o] = s]
    /\ IF HasBrokerId(out)
         THEN /\ task' = [task EXCEPT ![o] = "new"]
              /\ registry' = registry \union {o}
         ELSE UNCHANGED <<task, registry>>
    /\ UNCHANGED <<cancelled, seen, at, shown, clients, stopping>>

\* A task that ends removes its key.
Bug_KeyKept(o) == /\ task' = [task EXCEPT ![o] = "over"]
                  /\ registry' = IF task[o] = "asking" THEN registry
                                                       ELSE registry \ {o}
EndTask(o) == /\ task' = [task EXCEPT ![o] = "over"]
              /\ registry' = registry \ {o}

\* The task runs to its next await.
Steps(o, from) == task[o] = from /\ o \notin cancelled

StartPolling(o) ==
    /\ Steps(o, "new")
    /\ task' = [task EXCEPT ![o] = "sleeping"]
    /\ UNCHANGED <<broker, cancelled, registry, seen, at, shown, clients, stopping>>

AskStatus(o) ==
    /\ Steps(o, "sleeping")
    /\ task' = [task EXCEPT ![o] = "asking"]
    /\ UNCHANGED <<broker, cancelled, registry, seen, at, shown, clients, stopping>>

GetStatus(o) ==
    /\ Steps(o, "asking")
    /\ seen' = [seen EXCEPT ![o] = broker[o]]
    /\ at' = [at EXCEPT ![o] = 1]
    /\ task' = [task EXCEPT ![o] = "sending"]
    /\ UNCHANGED <<broker, cancelled, registry, shown, clients, stopping>>

\* Any exception of the adapter is None to the task, which gives up.
MissStatus(o) ==
    /\ MayMiss
    /\ Steps(o, "asking")
    /\ seen' = [seen EXCEPT ![o] = Missing]
    /\ EndTask(o)
    /\ UNCHANGED <<broker, cancelled, at, shown, clients, stopping>>

\* The callback of a client that is gone raises, which is only logged.
Bug_EndsAtGone(o, c) == IF c \in online THEN at[o] + 1 ELSE Len(callbacks) + 1
Bug_RetriesGone(o, c) == IF c \in online THEN at[o] + 1 ELSE at[o]
NextCallback(o, c) == at[o] + 1

SendStatus(o) ==
    /\ Steps(o, "sending")
    /\ at[o] <= Len(callbacks)
    /\ LET c == callbacks[at[o]]
       IN  /\ shown' = IF c \in online THEN [shown EXCEPT ![c][o] = seen[o]]
                                       ELSE shown
           /\ at' = [at EXCEPT ![o] = NextCallback(o, c)]
    /\ UNCHANGED <<broker, task, cancelled, registry, seen, clients, stopping>>

StatusSent(o) ==
    /\ Steps(o, "sending")
    /\ at[o] = Len(callbacks) + 1
    /\ IF seen[o] \in Ends
         THEN EndTask(o)
         ELSE task' = [task EXCEPT ![o] = "sleeping"] /\ UNCHANGED registry
    /\ UNCHANGED <<broker, cancelled, seen, at, shown, clients, stopping>>

\* CancelledError breaks the loop wherever it waits; a task that never ran
\* has no loop to break and keeps its key.
TaskCancelled(o) ==
    /\ o \in cancelled
    /\ cancelled' = cancelled \ {o}
    /\ IF task[o] = "new"
         THEN task' = [task EXCEPT ![o] = "over"] /\ UNCHANGED registry
         ELSE EndTask(o)
    /\ UNCHANGED <<broker, seen, at, shown, clients, stopping>>
-----------------------------------------------------------------------------
Bug_Prepends(c) == <<c>> \o callbacks
\* on: the loop over the callbacks that awaits one of them finds the new one, too.
Registered(c) == Append(callbacks, c)

ClientJoins(c) ==
    /\ c \notin online
    /\ \A i \in 1..Len(callbacks) : callbacks[i] # c
    /\ online' = online \union {c}
    /\ callbacks' = Registered(c)
    /\ UNCHANGED <<broker, tracking, stopping>>

\* The handler calls order_manager.off, which does not exist: the callback of
\* a client that leaves stays.
ClientLeaves(c) ==
    /\ c \in online
    /\ online' = online \ {c}
    /\ UNCHANGED <<broker, tracking, callbacks, stopping>>
-----------------------------------------------------------------------------
Bug_CancelsOne(S) == {CHOOSE o \in S : TRUE}
ToCancel(S) == S

\* The first loop cancels every task, and the second awaits the first of them.
StopCancels ==
    /\ stopper = "idle"
    /\ registry # {}
    /\ cancelled' = ToCancel(registry)
    /\ stopper' = "waiting"
    /\ size' = Cardinality(registry)
    /\ \E o \in registry : waited' = {o}
    /\ UNCHANGED <<broker, task, registry, seen, at, shown, clients>>

StopAtOnce ==
    /\ stopper = "idle"
    /\ registry = {}
    /\ stopper' = "done"
    /\ UNCHANGED <<broker, tracking, clients, waited, size>>

\* What stop() awaited is over: it goes on to the next value.
AtNext == stopper = "waiting" /\ \A o \in waited : ~Running(o)

StopAwaits(o) ==
    /\ AtNext
    /\ Cardinality(registry) = size
    /\ o \in registry \ waited
    /\ waited' = waited \union {o}
    /\ UNCHANGED <<broker, tracking, clients, stopper, size>>

\* _status_tasks.clear()
StopReturns ==
    /\ AtNext
    /\ Cardinality(registry) = size
    /\ registry \subseteq waited
    /\ registry' = {}
    /\ stopper' = "done"
    /\ UNCHANGED <<broker, task, cancelled, seen, at, shown, clients, waited, size>>

\* RuntimeError: dictionary changed size during iteration
StopRaises ==
    /\ AtNext
    /\ Cardinality(registry) # size
    /\ stopper' = "raised"
    /\ UNCHANGED <<broker, tracking, clients, waited, size>>
-----------------------------------------------------------------------------
Polls(o) == \/ StartPolling(o) \/ AskStatus(o)
            \/ GetStatus(o) \/ MissStatus(o)
            \/ SendStatus(o) \/ StatusSent(o)
            \/ TaskCancelled(o)

Stops == (\E o \in Orders : StopAwaits(o)) \/ StopReturns \/ StopRaises

Next == \/ \E o \in Orders : \/ \E s \in Statuses : BrokerMoves(o, s)
                             \/ \E out \in Outcomes, s \in Statuses : PlaceOrder(o, out, s)
                             \/ Polls(o)
        \/ \E c \in Clients : ClientJoins(c) \/ ClientLeaves(c)
        \/ StopCancels \/ StopAtOnce
        \/ Stops

\* Tasks go on: sleeps end, the broker answers or times out, sends end.
Fairness == (\A o \in Orders : WF_vars(Polls(o))) /\ WF_vars(Stops)

Spec == Init /\ [][Next]_vars /\ Fairness
-----------------------------------------------------------------------------
\* Until shutdown, _status_tasks holds exactly the tasks that run: no task runs
\* unknown to stop(), and no finished task is kept.
RegistryIsExact == stopper = "idle" => registry = {o \in Orders : Running(o)}

\* Whoever joins or leaves while a status is sent to one client after the other:
\* when the round is over, all that are connected then have been sent this status.
RoundReachesAll ==
    [][\A o \in Orders \ cancelled :
          task[o] = "sending" /\ task'[o] # "sending" =>
              \A c \in online : shown[c][o] = seen[o]]_vars

\* A client that is online and was ever sent a status of the order has been
\* sent the one its tracking ended with, whichever clients left meanwhile.
EndIsShown ==
    stopper = "idle" =>
        \A o \in Orders : task[o] = "over" /\ seen[o] # Missing =>
            \A c \in online : shown[c][o] # None => shown[c][o] = seen[o]

\* Every task that runs when stop() is called is cancelled: none outlives it.
StopEndsTasks ==
    \A o \in Orders : []( stopper = "idle" /\ Running(o) =>
                           <>(task[o] = "over") \/ [](stopper = "idle"))

\* An order that is done at the broker does not stay followed.
FinalIsNoticed ==
    \A o \in Orders : (Running(o) /\ broker[o] \in Final) ~> (task[o] = "over")

\* The manager follows an order until it is really done, or cannot be found.
FollowedUntilFinal ==
    stopper = "idle" =>
        \A o \in Orders : task[o] = "over" => seen[o] \in Final \union {Missing}
=============================================================================
