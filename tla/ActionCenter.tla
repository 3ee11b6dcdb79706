---------------------------- MODULE ActionCenter ----------------------------
(***************************************************************************)
(* The action center: orders that wait for a person's approval.            *)
(*                                                                         *)
(* Request handlers submit, approve, reject and cancel actions; the        *)
(* cleanup task expires the overdue ones.  All of them run their critical  *)
(* section under one asyncio.Lock, which serves its waiters in order of    *)
(* arrival and which approve_action keeps while the order is placed: that  *)
(* is the only await inside a critical section that gives way to other tasks  *)
(* (no callback is ever registered with on_action_update), so every other  *)
(* section is one atomic step.  Time is abstracted to overdue[a], TRUE     *)
(* once datetime.utcnow() > a.expires_at.                                  *)
(***************************************************************************)
EXTENDS Naturals, Sequences, PlaceOrder

CONSTANTS Actions,   \* the ids the service may hand out
          Users,     \* who submits and cancels
          Handlers,  \* tasks running a request, at most one call each
          Cleaner,   \* the task running _cleanup_loop
          Nobody     \* no task, no user

ASSUME TasksDistinct == /\ Cleaner \notin Handlers
                        /\ Nobody \notin Handlers \union {Cleaner} \union Users

ActionStatus == {"PENDING", "APPROVED", "REJECTED", "EXPIRED", "EXECUTED",
                 "CANCELLED"}
Absent == "ABSENT"     \* the id is not a key of _actions

\* Who approves or rejects is only recorded; who submits and cancels matters.
Calls == [op : {"approve", "reject"}, action : Actions] \union
         [op : {"submit", "cancel"}, action : Actions, user : Users]
Idle  == [op |-> "idle"]

Tasks == Handlers \union {Cleaner}

VARIABLES status,   \* _actions[a].status
          owner,    \* _actions[a].user_id
          overdue,  \* utcnow() > _actions[a].expires_at
          result,   \* _actions[a].execution_result: "none", "order", "error"
          orders,   \* orders the broker keeps on behalf of the action
          call,     \* the call each handler is running
          queue,    \* tasks waiting for _lock, first come first served
          holder,   \* the task that awaits place_order inside _lock
          cleaner   \* "asleep", "waiting" for _lock, or "stopped"

vars == <<status, owner, overdue, result, orders, call, queue, holder, cleaner>>

TypeOK ==
    /\ status \in [Actions -> ActionStatus \union {Absent}]
    /\ owner \in [Actions -> Users \union {Nobody}]
    /\ overdue \in [Actions -> BOOLEAN]
    /\ result \in [Actions -> {"none", "order", "error"}]
    /\ orders \in [Actions -> Nat]
    /\ call \in [Handlers -> Calls \union {Idle}]
    /\ queue \in Seq(Tasks)
    /\ holder \in Handlers \union {Nobody}
    /\ cleaner \in {"asleep", "waiting", "stopped"}

Init ==
    /\ status = [a \in Actions |-> Absent]
    /\ owner = [a \in Actions |-> Nobody]
    /\ overdue = [a \in Actions |-> FALSE]
    /\ result = [a \in Actions |-> "none"]
    /\ orders = [a \in Actions |-> 0]
    /\ call = [h \in Handlers |-> Idle]
    /\ queue = <<>>
    /\ holder = Nobody
    /\ cleaner = "asleep"
-----------------------------------------------------------------------------
(* A request arrives and queues for the lock.  Every submission gets a     *)
(* fresh id, so no two submissions in progress name the same action.       *)
Request(h, c) ==
    /\ cleaner # "stopped"
    /\ call[h] = Idle
    /\ c.op = "submit" => /\ status[c.action] = Absent
                          /\ \A g \in Handlers :
                                call[g] # Idle => call[g].action # c.action
    /\ call' = [call EXCEPT ![h] = c]
    /\ queue' = Append(queue, h)
    /\ UNCHANGED <<status, owner, overdue, result, orders, holder, cleaner>>

\* t is the next to get the lock, and the lock is free.
Enters(t) == /\ holder = Nobody
             /\ queue # <<>>
             /\ Head(queue) = t

\* Handler h gets the lock for operation op, runs to the end, and returns.
RunsToEnd(h, op) ==
    /\ Enters(h)
    /\ call[h].op = op
    /\ queue' = Tail(queue)
    /\ call' = [call EXCEPT ![h] = Idle]
    /\ UNCHANGED <<holder, cleaner>>

SubmitOrder(h) ==
    /\ RunsToEnd(h, "submit")
    /\ LET a == call[h].action IN
       /\ status[a] = Absent          \* uuid4()
       /\ status' = [status EXCEPT ![a] = "PENDING"]
       /\ owner' = [owner EXCEPT ![a] = call[h].user]
    /\ UNCHANGED <<overdue, result, orders>>

\* The approval that places nothing: unknown or decided action, or too late.
ApproveFails(h) ==
    /\ RunsToEnd(h, "approve")
    /\ LET a == call[h].action IN
       \/ /\ status[a] # "PENDING"
          /\ UNCHANGED status
       \/ /\ status[a] = "PENDING"
          /\ overdue[a]
          /\ status' = [status EXCEPT ![a] = "EXPIRED"]
    /\ UNCHANGED <<owner, overdue, result, orders>>

\* (Bug_... operators are plausible bugs; a mutation run puts one in the place
\* of the definition that follows it and must break the property it aims at.)
Bug_ApproveDecided(a) == ~overdue[a]
Bug_ApproveLate(a) == status[a] = "PENDING"
MayApprove(a) == status[a] = "PENDING" /\ ~overdue[a]

\* The approval proper, up to the await of place_order: the lock stays held.
ApproveAction(h) ==
    /\ Enters(h)
    /\ call[h].op = "approve"
    /\ MayApprove(call[h].action)
    /\ status' = [status EXCEPT ![call[h].action] = "APPROVED"]
    /\ queue' = Tail(queue)
    /\ holder' = h
    /\ UNCHANGED <<owner, overdue, result, orders, call, cleaner>>

StatusAfter(o) == IF Success(o) THEN "EXECUTED" ELSE "APPROVED"

Bug_NoResult(o) == IF Success(o) THEN "order" ELSE "none"
ResultAfter(o) == IF Success(o) THEN "order" ELSE "error"

Bug_LockKept == UNCHANGED holder
ReleaseLock == holder' = Nobody

\* place_order returns (or raises, which the handler records the same way as
\* success = FALSE); the lock is released.
PlaceReturns(h, o) ==
    /\ holder = h
    /\ call[h].op = "approve"
    /\ LET a == call[h].action IN
       /\ orders' = IF KeepsOrder(o) THEN [orders EXCEPT ![a] = @ + 1] ELSE orders
       /\ status' = [status EXCEPT ![a] = StatusAfter(o)]
       /\ result' = [result EXCEPT ![a] = ResultAfter(o)]
    /\ ReleaseLock
    /\ call' = [call EXCEPT ![h] = Idle]
    /\ UNCHANGED <<owner, overdue, queue, cleaner>>

RejectAction(h) ==
    /\ RunsToEnd(h, "reject")
    /\ LET a == call[h].action IN
       status' = IF status[a] = "PENDING"
                   THEN [status EXCEPT ![a] = "REJECTED"] ELSE status
    /\ UNCHANGED <<owner, overdue, result, orders>>

\* Only the user who submitted the action can cancel it.
CancelAction(h) ==
    /\ RunsToEnd(h, "cancel")
    /\ LET a == call[h].action IN
       status' = IF status[a] = "PENDING" /\ owner[a] = call[h].user
                   THEN [status EXCEPT ![a] = "CANCELLED"] ELSE status
    /\ UNCHANGED <<owner, overdue, result, orders>>
-----------------------------------------------------------------------------
(* The clock passes expires_at.                                            *)
DeadlinePasses(a) ==
    /\ status[a] # Absent
    /\ ~overdue[a]
    /\ overdue' = [overdue EXCEPT ![a] = TRUE]
    /\ UNCHANGED <<status, owner, result, orders, call, queue, holder, cleaner>>

\* The 60 s sleep of the cleanup loop ends.
CleanupWakes ==
    /\ cleaner = "asleep"
    /\ cleaner' = "waiting"
    /\ queue' = Append(queue, Cleaner)
    /\ UNCHANGED <<status, owner, overdue, result, orders, call, holder>>

Bug_ExpireDecided(a) == status[a] # Absent /\ overdue[a]
Bug_ExpireEarly(a) == status[a] = "PENDING" /\ ~overdue[a]
Expires(a) == status[a] = "PENDING" /\ overdue[a]

CleanupSweep ==
    /\ Enters(Cleaner)
    /\ status' = [a \in Actions |-> IF Expires(a) THEN "EXPIRED" ELSE status[a]]
    /\ queue' = Tail(queue)
    /\ cleaner' = "asleep"
    /\ UNCHANGED <<owner, overdue, result, orders, call, holder>>

\* Shutdown: the server has answered every request before the lifespan's
\* exit stops the service, and the cancelled task leaves the lock's queue.
Stop ==
    /\ cleaner # "stopped"
    /\ \A h \in Handlers : call[h] = Idle
    /\ cleaner' = "stopped"
    /\ queue' = <<>>
    /\ UNCHANGED <<status, owner, overdue, result, orders, call, holder>>
-----------------------------------------------------------------------------
Runs(h) == \/ SubmitOrder(h)
           \/ ApproveFails(h)
           \/ ApproveAction(h)
           \/ \E o \in Outcomes : PlaceReturns(h, o)
           \/ RejectAction(h)
           \/ CancelAction(h)

Next == \/ \E h \in Handlers : Runs(h) \/ \E c \in Calls : Request(h, c)
        \/ \E a \in Actions : DeadlinePasses(a)
        \/ CleanupWakes
        \/ CleanupSweep
        \/ Stop

\* The event loop runs every task that is ready, place_order ends (its HTTP
\* call times out after 30 s) and time passes.  Nobody has to send a request.
Fairness == /\ \A h \in Handlers : WF_vars(Runs(h))
            /\ \A a \in Actions : WF_vars(DeadlinePasses(a))
            /\ WF_vars(CleanupWakes)
            /\ WF_vars(CleanupSweep)

Spec == Init /\ [][Next]_vars /\ Fairness
-----------------------------------------------------------------------------
\* The task that awaits place_order is placing the order of this action.
Placing(a) == /\ holder # Nobody
              /\ call[holder].op = "approve"
              /\ call[holder].action = a

\* However many handlers approve the same action at once, the broker gets at
\* most one order for it.
OneOrderPerAction == \A a \in Actions : orders[a] <= 1

\* The broker has no order for an action that nobody approved: rejected,
\* cancelled and expired actions never trade.
OrdersAreApproved ==
    \A a \in Actions : orders[a] > 0 => status[a] \in {"APPROVED", "EXECUTED"}

\* An action is left APPROVED only while its order is being placed or with the
\* error of the attempt: an approval never dangles without an outcome.
ApprovalsHaveOutcomes ==
    \A a \in Actions :
        /\ status[a] = "APPROVED" /\ result[a] = "none" => Placing(a)
        /\ status[a] = "EXECUTED" => result[a] = "order"

\* A decision stands: once an action leaves PENDING only its own approval can
\* still turn into EXECUTED, and an overdue action is never approved, however
\* long the approval waited for the lock.
DecisionsStand ==
    [][\A a \in Actions :
          /\ status[a] \notin {Absent, "PENDING"} =>
                \/ status'[a] = status[a]
                \/ status[a] = "APPROVED" /\ status'[a] = "EXECUTED" /\ Placing(a)
          /\ status[a] = "PENDING" /\ overdue[a] => status'[a] # "APPROVED"]_vars

\* Every request is answered: nobody waits for the lock for ever behind the
\* other handlers and the cleanup task.
RequestsAreAnswered == \A h \in Handlers : (call[h] # Idle) ~> (call[h] = Idle)

\* No action stays PENDING for ever: if nobody decides, the cleanup task
\* expires it, unless the service was stopped.
PendingIsDecided ==
    \A a \in Actions :
        (status[a] = "PENDING") ~> (status[a] # "PENDING" \/ cleaner = "stopped")

\* What an action has come to, for a client that sees none of the machinery.
Decision ==
    [a \in Actions |->
        CASE status[a] = Absent -> "none"
          [] status[a] = "PENDING" -> "open"
          [] status[a] \in {"REJECTED", "EXPIRED", "CANCELLED"} -> "refused"
          [] status[a] = "APPROVED" /\ result[a] = "none" -> "granted"
          [] OTHER -> "settled"]

\* The action center implements the promise of OrderApproval.
Approval == INSTANCE OrderApproval WITH decision <- Decision
ImplementsApproval == Approval!Spec
=============================================================================
