------------------------ MODULE ActionCenter_proofs -------------------------
(***************************************************************************)
(* For any number of actions, users and handlers: the action center keeps  *)
(* its types and its safety invariants, never undoes a decision, and each  *)
(* of its steps is a step of OrderApproval or leaves it unchanged.         *)
(***************************************************************************)
EXTENDS ActionCenter, TLAPS

\* What the invariants rest on: an action without a result has no order yet,
\* and only an approved action has a result.
ResultInv ==
    \A a \in Actions :
        /\ result[a] = "none" => orders[a] = 0
        /\ result[a] # "none" => status[a] \in {"APPROVED", "EXECUTED"}

\* The lock is kept across place_order only by the approval of an action that
\* is APPROVED and has no outcome yet.
HolderInv ==
    holder # Nobody =>
        /\ call[holder] # Idle
        /\ call[holder].op = "approve"
        /\ status[call[holder].action] = "APPROVED"
        /\ result[call[holder].action] = "none"

IInv == /\ TypeOK
        /\ OneOrderPerAction
        /\ OrdersAreApproved
        /\ ApprovalsHaveOutcomes
        /\ ResultInv
        /\ HolderInv

\* A call in progress names an action the service knows how to find.
LEMMA CallAction ==
    ASSUME TypeOK, NEW h \in Handlers, call[h] # Idle
    PROVE  /\ call[h] \in Calls
           /\ call[h].action \in Actions
  <1>1. call[h] \in Calls
    BY DEF TypeOK
  <1>2. QED
    BY <1>1 DEF Calls

\* The one that submits also names a user.
LEMMA CallUser ==
    ASSUME TypeOK, NEW h \in Handlers, call[h].op = "submit"
    PROVE  call[h].user \in Users
  <1>1. call[h] # Idle
    BY DEF Idle
  <1>2. QED
    BY <1>1, CallAction DEF Calls

\* Taking the first waiter leaves a queue of tasks.
LEMMA TailType ==
    ASSUME NEW q \in Seq(Tasks), q # <<>>
    PROVE  Tail(q) \in Seq(Tasks)
  OBVIOUS

\* The initial state satisfies the inductive invariant.
LEMMA InitInv == Init => IInv
  <1> SUFFICES ASSUME Init PROVE IInv
    OBVIOUS
  <1>1. TypeOK
    BY DEF Init, TypeOK
  <1>2. QED
    BY <1>1, TasksDistinct
       DEF Init, IInv, OneOrderPerAction, OrdersAreApproved, Absent,
           ApprovalsHaveOutcomes, ResultInv, HolderInv

\* A step keeps the types.
LEMMA StepType == IInv /\ [Next]_vars => TypeOK'
  <1> SUFFICES ASSUME IInv, [Next]_vars PROVE TypeOK'
    OBVIOUS
  <1> USE DEF IInv
  <1>1. ASSUME NEW h \in Handlers, SubmitOrder(h) PROVE TypeOK'
    <2>1. call[h] # Idle
      BY <1>1 DEF SubmitOrder, RunsToEnd, Idle
    <2>2. call[h].action \in Actions /\ call[h].user \in Users
      BY <1>1, <2>1, CallAction, CallUser DEF SubmitOrder, RunsToEnd
    <2>3. queue' \in Seq(Tasks)
      BY <1>1, TailType DEF SubmitOrder, RunsToEnd, Enters, TypeOK
    <2>4. QED
      BY <1>1, <2>2, <2>3 DEF SubmitOrder, RunsToEnd, TypeOK, ActionStatus
  <1>2. ASSUME NEW h \in Handlers, ApproveFails(h) PROVE TypeOK'
    <2>1. queue' \in Seq(Tasks)
      BY <1>2, TailType DEF ApproveFails, RunsToEnd, Enters, TypeOK
    <2>2. status' \in [Actions -> ActionStatus \union {Absent}]
      BY <1>2 DEF ApproveFails, TypeOK, ActionStatus
    <2>3. QED
      BY <1>2, <2>1, <2>2 DEF ApproveFails, RunsToEnd, TypeOK
  <1>3. ASSUME NEW h \in Handlers, ApproveAction(h) PROVE TypeOK'
    <2>1. queue' \in Seq(Tasks)
      BY <1>3, TailType DEF ApproveAction, Enters, TypeOK
    <2>2. QED
      BY <1>3, <2>1 DEF ApproveAction, TypeOK, ActionStatus
  <1>4. ASSUME NEW h \in Handlers, NEW o \in Outcomes, PlaceReturns(h, o)
        PROVE  TypeOK'
    <2>1. StatusAfter(o) \in ActionStatus /\ ResultAfter(o) \in {"none", "order", "error"}
      BY DEF StatusAfter, ResultAfter, ActionStatus
    <2>2. orders' \in [Actions -> Nat]
      <3>1. call[h].action \in Actions
        BY <1>4, TasksDistinct, CallAction DEF PlaceReturns, HolderInv
      <3>2. QED
        BY <1>4, <3>1 DEF PlaceReturns, TypeOK
    <2>3. status' \in [Actions -> ActionStatus \union {Absent}]
      BY <1>4, <2>1 DEF PlaceReturns, TypeOK
    <2>4. result' \in [Actions -> {"none", "order", "error"}]
      BY <1>4, <2>1 DEF PlaceReturns, TypeOK
    <2>5. /\ holder' = Nobody
          /\ call' = [call EXCEPT ![h] = Idle]
          /\ UNCHANGED <<owner, overdue, queue, cleaner>>
      BY <1>4 DEF PlaceReturns, ReleaseLock
    <2>6. QED
      BY <2>2, <2>3, <2>4, <2>5 DEF TypeOK
  <1>5. ASSUME NEW h \in Handlers, RejectAction(h) PROVE TypeOK'
    <2>1. queue' \in Seq(Tasks)
      BY <1>5, TailType DEF RejectAction, RunsToEnd, Enters, TypeOK
    <2>2. status' \in [Actions -> ActionStatus \union {Absent}]
      BY <1>5 DEF RejectAction, TypeOK, ActionStatus
    <2>3. QED
      BY <1>5, <2>1, <2>2 DEF RejectAction, RunsToEnd, TypeOK
  <1>6. ASSUME NEW h \in Handlers, CancelAction(h) PROVE TypeOK'
    <2>1. queue' \in Seq(Tasks)
      BY <1>6, TailType DEF CancelAction, RunsToEnd, Enters, TypeOK
    <2>2. status' \in [Actions -> ActionStatus \union {Absent}]
      BY <1>6 DEF CancelAction, TypeOK, ActionStatus
    <2>3. QED
      BY <1>6, <2>1, <2>2 DEF CancelAction, RunsToEnd, TypeOK
  <1>7. ASSUME NEW h \in Handlers, NEW c \in Calls, Request(h, c) PROVE TypeOK'
    BY <1>7 DEF Request, TypeOK, Tasks
  <1>8. ASSUME NEW a \in Actions, DeadlinePasses(a) PROVE TypeOK'
    BY <1>8 DEF DeadlinePasses, TypeOK
  <1>9. CASE CleanupWakes
    BY <1>9 DEF CleanupWakes, TypeOK, Tasks
  <1>10. CASE CleanupSweep
    <2>1. queue' \in Seq(Tasks)
      BY <1>10, TailType DEF CleanupSweep, Enters, TypeOK
    <2>2. status' \in [Actions -> ActionStatus \union {Absent}]
      BY <1>10 DEF CleanupSweep, TypeOK, ActionStatus
    <2>3. QED
      BY <1>10, <2>1, <2>2 DEF CleanupSweep, TypeOK
  <1>11. CASE Stop
    BY <1>11 DEF Stop, TypeOK
  <1>12. CASE UNCHANGED vars
    BY <1>12 DEF vars, TypeOK
  <1>13. QED
    BY <1>1, <1>2, <1>3, <1>4, <1>5, <1>6, <1>7, <1>8, <1>9, <1>10, <1>11, <1>12
       DEF Next, Runs

\* A step that leaves the orders, the results, the lock and the calls in
\* progress alone, and moves each status by a legal step that places nothing,
\* keeps the invariant.
LEMMA QuietStep ==
    ASSUME IInv, TypeOK',
           UNCHANGED <<orders, result, holder>>,
           holder # Nobody => call'[holder] = call[holder],
           \A a \in Actions :
              \/ status'[a] = status[a]
              \/ /\ status[a] \in {Absent, "PENDING"}
                 /\ status'[a] \in {"PENDING", "REJECTED", "EXPIRED", "CANCELLED"}
    PROVE  IInv'
  <1> USE DEF IInv
  <1>1. OneOrderPerAction'
    BY DEF OneOrderPerAction
  <1>2. OrdersAreApproved'
    BY DEF OrdersAreApproved, Absent
  <1>3. ResultInv'
    BY DEF ResultInv, Absent
  <1>4. ApprovalsHaveOutcomes'
    BY DEF ApprovalsHaveOutcomes, Placing
  <1>5. HolderInv'
    <2>1. SUFFICES ASSUME holder # Nobody
                   PROVE  /\ call'[holder] # Idle
                          /\ call'[holder].op = "approve"
                          /\ status'[call'[holder].action] = "APPROVED"
                          /\ result'[call'[holder].action] = "none"
      BY DEF HolderInv
    <2>2. call[holder].action \in Actions
      BY <2>1, CallAction DEF HolderInv, TypeOK
    <2>3. QED
      BY <2>1, <2>2 DEF HolderInv, Absent
  <1>6. QED
    BY <1>1, <1>2, <1>3, <1>4, <1>5

\* A step keeps the inductive invariant.
LEMMA StepInv == IInv /\ [Next]_vars => IInv'
  <1> SUFFICES ASSUME IInv, [Next]_vars PROVE IInv'
    OBVIOUS
  <1>0. TypeOK'
    BY StepType
  <1>1. ASSUME NEW h \in Handlers, SubmitOrder(h) PROVE IInv'
    <2>1. status[call[h].action] = Absent
      BY <1>1 DEF SubmitOrder
    <2>2. QED
      BY <1>0, <1>1, <2>1, QuietStep DEF SubmitOrder, RunsToEnd, Enters, IInv, TypeOK
  <1>2. ASSUME NEW h \in Handlers, ApproveFails(h) PROVE IInv'
    BY <1>0, <1>2, QuietStep DEF ApproveFails, RunsToEnd, Enters, IInv, TypeOK
  <1>3. ASSUME NEW h \in Handlers, ApproveAction(h) PROVE IInv'
    <2> DEFINE b == call[h].action
    <2>1. call[h] # Idle /\ b \in Actions
      BY <1>3, CallAction DEF ApproveAction, Idle, IInv
    <2>2. status[b] = "PENDING" /\ result[b] = "none"
      BY <1>3, <2>1 DEF ApproveAction, MayApprove, IInv, ResultInv
    <2>3. /\ status' = [status EXCEPT ![b] = "APPROVED"]
          /\ UNCHANGED <<orders, result, call>>
          /\ holder' = h
          /\ holder = Nobody
      BY <1>3 DEF ApproveAction, Enters
    <2>4. OneOrderPerAction' /\ OrdersAreApproved' /\ ResultInv'
      BY <2>1, <2>3 DEF IInv, TypeOK, OneOrderPerAction, OrdersAreApproved, ResultInv
    <2>5. ApprovalsHaveOutcomes'
      BY <1>3, <2>1, <2>2, <2>3, TasksDistinct
         DEF ApproveAction, IInv, TypeOK, ApprovalsHaveOutcomes, Placing
    <2>6. HolderInv'
      BY <1>3, <2>1, <2>2, <2>3 DEF IInv, TypeOK, HolderInv, ApproveAction
    <2>7. QED
      BY <1>0, <2>4, <2>5, <2>6 DEF IInv
  <1>4. ASSUME NEW h \in Handlers, NEW o \in Outcomes, PlaceReturns(h, o)
        PROVE  IInv'
    <2> DEFINE b == call[h].action
    <2>1. holder = h /\ h # Nobody
      BY <1>4, TasksDistinct DEF PlaceReturns
    <2>2. /\ b \in Actions
          /\ status[b] = "APPROVED"
          /\ result[b] = "none"
          /\ orders[b] = 0
      BY <2>1, CallAction DEF IInv, HolderInv, ResultInv
    <2>3. /\ status' = [status EXCEPT ![b] = StatusAfter(o)]
          /\ result' = [result EXCEPT ![b] = ResultAfter(o)]
          /\ orders' = IF KeepsOrder(o) THEN [orders EXCEPT ![b] = @ + 1] ELSE orders
          /\ holder' = Nobody
      BY <1>4 DEF PlaceReturns, ReleaseLock
    <2>4. /\ StatusAfter(o) \in {"APPROVED", "EXECUTED"}
          /\ ResultAfter(o) \in {"order", "error"}
          /\ StatusAfter(o) = "EXECUTED" => ResultAfter(o) = "order"
      BY DEF StatusAfter, ResultAfter
    <2>5. OneOrderPerAction'
      BY <2>2, <2>3 DEF IInv, TypeOK, OneOrderPerAction
    <2>6. OrdersAreApproved' /\ ResultInv'
      BY <2>2, <2>3, <2>4 DEF IInv, TypeOK, OrdersAreApproved, ResultInv
    <2>7. ApprovalsHaveOutcomes'
      BY <2>1, <2>2, <2>3, <2>4 DEF IInv, TypeOK, ApprovalsHaveOutcomes, Placing
    <2>8. HolderInv'
      BY <2>3 DEF HolderInv
    <2>9. QED
      BY <1>0, <2>5, <2>6, <2>7, <2>8 DEF IInv
  <1>5. ASSUME NEW h \in Handlers, RejectAction(h) PROVE IInv'
    BY <1>0, <1>5, QuietStep DEF RejectAction, RunsToEnd, Enters, IInv, TypeOK
  <1>6. ASSUME NEW h \in Handlers, CancelAction(h) PROVE IInv'
    BY <1>0, <1>6, QuietStep DEF CancelAction, RunsToEnd, Enters, IInv, TypeOK
  <1>7. ASSUME NEW h \in Handlers, NEW c \in Calls, Request(h, c) PROVE IInv'
    <2>1. holder # Nobody => holder # h
      BY <1>7 DEF Request, IInv, HolderInv
    <2>2. QED
      BY <1>0, <1>7, <2>1, QuietStep DEF Request, IInv, TypeOK
  <1>8. ASSUME NEW a \in Actions, DeadlinePasses(a) PROVE IInv'
    BY <1>0, <1>8, QuietStep DEF DeadlinePasses
  <1>9. CASE CleanupWakes
    BY <1>0, <1>9, QuietStep DEF CleanupWakes
  <1>10. CASE CleanupSweep
    BY <1>0, <1>10, QuietStep DEF CleanupSweep, Expires
  <1>11. CASE Stop
    BY <1>0, <1>11, QuietStep DEF Stop
  <1>12. CASE UNCHANGED vars
    BY <1>0, <1>12, QuietStep DEF vars
  <1>13. QED
    BY <1>1, <1>2, <1>3, <1>4, <1>5, <1>6, <1>7, <1>8, <1>9, <1>10, <1>11, <1>12
       DEF Next, Runs

\* The inductive invariant holds in every reachable state.
THEOREM Invariance == Spec => []IInv
  BY InitInv, StepInv, PTL DEF Spec

\* Type correctness.
THEOREM TypeCorrect == Spec => []TypeOK
  <1>1. IInv => TypeOK
    BY DEF IInv
  <1>2. QED
    BY <1>1, Invariance, PTL

\* For any number of handlers and actions: the broker gets at most one order
\* for an action, however its approvals race.
THEOREM AtMostOneOrder == Spec => []OneOrderPerAction
  <1>1. IInv => OneOrderPerAction
    BY DEF IInv
  <1>2. QED
    BY <1>1, Invariance, PTL

\* No order without an approval.
THEOREM ApprovedFirst == Spec => []OrdersAreApproved
  <1>1. IInv => OrdersAreApproved
    BY DEF IInv
  <1>2. QED
    BY <1>1, Invariance, PTL

\* No approval without an outcome.
THEOREM ApprovedAndAnswered == Spec => []ApprovalsHaveOutcomes
  <1>1. IInv => ApprovalsHaveOutcomes
    BY DEF IInv
  <1>2. QED
    BY <1>1, Invariance, PTL

\* The inner formula of DecisionsStand.
StandsStep ==
    \A a \in Actions :
          /\ status[a] \notin {Absent, "PENDING"} =>
                \/ status'[a] = status[a]
                \/ status[a] = "APPROVED" /\ status'[a] = "EXECUTED" /\ Placing(a)
          /\ status[a] = "PENDING" /\ overdue[a] => status'[a] # "APPROVED"

\* No step undoes a decision or approves an overdue action.
LEMMA StepStands == IInv /\ [Next]_vars => StandsStep
  <1> SUFFICES ASSUME IInv, [Next]_vars PROVE StandsStep
    OBVIOUS
  <1> USE DEF IInv, TypeOK, StandsStep
  <1>1. ASSUME NEW h \in Handlers, SubmitOrder(h) PROVE StandsStep
    BY <1>1 DEF SubmitOrder
  <1>2. ASSUME NEW h \in Handlers, ApproveFails(h) PROVE StandsStep
    BY <1>2 DEF ApproveFails
  <1>3. ASSUME NEW h \in Handlers, ApproveAction(h) PROVE StandsStep
    BY <1>3 DEF ApproveAction, MayApprove
  <1>4. ASSUME NEW h \in Handlers, NEW o \in Outcomes, PlaceReturns(h, o)
        PROVE  StandsStep
    <2>1. holder = h /\ holder # Nobody
      BY <1>4, TasksDistinct DEF PlaceReturns
    <2>2. status[call[h].action] = "APPROVED"
      BY <2>1 DEF HolderInv
    <2>3. status' = [status EXCEPT ![call[h].action] = StatusAfter(o)]
      BY <1>4 DEF PlaceReturns
    <2>4. StatusAfter(o) \in {"APPROVED", "EXECUTED"}
      BY DEF StatusAfter
    <2>5. QED
      BY <1>4, <2>1, <2>2, <2>3, <2>4 DEF Placing, PlaceReturns
  <1>5. ASSUME NEW h \in Handlers, RejectAction(h) PROVE StandsStep
    BY <1>5 DEF RejectAction
  <1>6. ASSUME NEW h \in Handlers, CancelAction(h) PROVE StandsStep
    BY <1>6 DEF CancelAction
  <1>7. ASSUME NEW h \in Handlers, NEW c \in Calls, Request(h, c) PROVE StandsStep
    BY <1>7 DEF Request
  <1>8. ASSUME NEW a \in Actions, DeadlinePasses(a) PROVE StandsStep
    BY <1>8 DEF DeadlinePasses
  <1>9. CASE CleanupWakes
    BY <1>9 DEF CleanupWakes
  <1>10. CASE CleanupSweep
    BY <1>10 DEF CleanupSweep, Expires
  <1>11. CASE Stop
    BY <1>11 DEF Stop
  <1>12. CASE UNCHANGED vars
    BY <1>12 DEF vars
  <1>13. QED
    BY <1>1, <1>2, <1>3, <1>4, <1>5, <1>6, <1>7, <1>8, <1>9, <1>10, <1>11, <1>12
       DEF Next, Runs

\* No decision is undone and no overdue action approved, for every value of
\* the constants.
THEOREM DecisionsAreFinal == Spec => DecisionsStand
  <1>1. IInv /\ [Next]_vars =>
          [\A a \in Actions :
            /\ status[a] \notin {Absent, "PENDING"} =>
                 \/ status'[a] = status[a]
                 \/ status[a] = "APPROVED" /\ status'[a] = "EXECUTED" /\ Placing(a)
            /\ status[a] = "PENDING" /\ overdue[a] => status'[a] # "APPROVED"]_vars
    BY StepStands DEF StandsStep
  <1>2. QED
    BY <1>1, Invariance, PTL DEF Spec, DecisionsStand
-----------------------------------------------------------------------------
\* A step that only refuses pending actions is a Refuse or a stutter.
LEMMA RefuseStep ==
    ASSUME UNCHANGED <<orders, result>>,
           \A a \in Actions :
              \/ status'[a] = status[a]
              \/ /\ status[a] = "PENDING"
                 /\ status'[a] \in {"REJECTED", "EXPIRED", "CANCELLED"}
    PROVE  [Approval!Next]_(Approval!vars)
  <1> DEFINE S == {a \in Actions : status'[a] # status[a]}
  <1>1. \A a \in S : Decision[a] = "open"
    BY DEF Decision, Absent
  <1>2. Decision' = [a \in Actions |-> IF a \in S THEN "refused" ELSE Decision[a]]
    <2>1. \A a \in Actions : Decision'[a] = IF a \in S THEN "refused" ELSE Decision[a]
      BY DEF Decision, Absent
    <2>2. QED
      BY <2>1 DEF Decision
  <1>3. CASE S = {}
    <2>1. Decision' = Decision
      BY <1>2, <1>3 DEF Decision
    <2>2. QED
      BY <2>1 DEF Approval!vars
  <1>4. CASE S # {}
    <2>1. S \in (SUBSET Actions) \ {{}}
      BY <1>4
    <2>2. Approval!Refuse(S)
      BY <1>1, <1>2 DEF Approval!Refuse
    <2>3. QED
      BY <2>1, <2>2 DEF Approval!Next
  <1>5. QED
    BY <1>3, <1>4

\* A step that changes the decision of one action, to d, changes no other.
LEMMA DecisionChange ==
    ASSUME TypeOK, NEW b \in Actions, NEW STATE s, NEW STATE r,
           status' = [status EXCEPT ![b] = s],
           result' = [result EXCEPT ![b] = r],
           NEW d, Decision'[b] = d
    PROVE  Decision' = [Decision EXCEPT ![b] = d]
  <1>1. \A a \in Actions : a # b => Decision'[a] = Decision[a]
    BY DEF Decision, TypeOK
  <1>2. /\ Decision = [a \in Actions |-> Decision[a]]
        /\ Decision' = [a \in Actions |-> Decision'[a]]
    BY DEF Decision
  <1>3. QED
    BY <1>1, <1>2

\* Every step is a step of OrderApproval or leaves its variables unchanged.
LEMMA StepRefines == IInv /\ [Next]_vars => [Approval!Next]_(Approval!vars)
  <1> SUFFICES ASSUME IInv, [Next]_vars PROVE [Approval!Next]_(Approval!vars)
    OBVIOUS
  <1>0. TypeOK
    BY DEF IInv
  <1>1. ASSUME NEW h \in Handlers, SubmitOrder(h)
        PROVE  [Approval!Next]_(Approval!vars)
    <2> DEFINE b == call[h].action
    <2>1. b \in Actions
      BY <1>0, <1>1, CallAction DEF SubmitOrder, RunsToEnd, Idle
    <2>2. /\ status[b] = Absent
          /\ status' = [status EXCEPT ![b] = "PENDING"]
          /\ UNCHANGED <<orders, result>>
      BY <1>1 DEF SubmitOrder
    <2>3. Decision[b] = "none" /\ Decision'[b] = "open"
      BY <1>0, <2>1, <2>2 DEF Decision, Absent, TypeOK
    <2>4. result' = [result EXCEPT ![b] = result[b]]
      BY <1>0, <2>2 DEF TypeOK
    <2>5. Decision' = [Decision EXCEPT ![b] = "open"]
      BY <1>0, <2>1, <2>2, <2>3, <2>4, DecisionChange
    <2>6. Approval!Open(b)
      BY <2>2, <2>3, <2>5 DEF Approval!Open
    <2>7. QED
      BY <2>1, <2>6 DEF Approval!Next
  <1>2. ASSUME NEW h \in Handlers, ApproveFails(h)
        PROVE  [Approval!Next]_(Approval!vars)
    BY <1>0, <1>2, RefuseStep DEF ApproveFails, TypeOK
  <1>3. ASSUME NEW h \in Handlers, ApproveAction(h)
        PROVE  [Approval!Next]_(Approval!vars)
    <2> DEFINE b == call[h].action
    <2>1. b \in Actions
      BY <1>0, <1>3, CallAction DEF ApproveAction, Idle
    <2>2. /\ status[b] = "PENDING" /\ result[b] = "none"
          /\ status' = [status EXCEPT ![b] = "APPROVED"]
          /\ UNCHANGED <<orders, result>>
      BY <1>3, <2>1 DEF ApproveAction, MayApprove, IInv, ResultInv
    <2>3. Decision[b] = "open" /\ Decision'[b] = "granted"
      BY <1>0, <2>1, <2>2 DEF Decision, Absent, TypeOK
    <2>4. result' = [result EXCEPT ![b] = result[b]]
      BY <1>0, <2>2 DEF TypeOK
    <2>5. Decision' = [Decision EXCEPT ![b] = "granted"]
      BY <1>0, <2>1, <2>2, <2>3, <2>4, DecisionChange
    <2>6. Approval!Grant(b)
      BY <2>2, <2>3, <2>5 DEF Approval!Grant
    <2>7. QED
      BY <2>1, <2>6 DEF Approval!Next
  <1>4. ASSUME NEW h \in Handlers, NEW o \in Outcomes, PlaceReturns(h, o)
        PROVE  [Approval!Next]_(Approval!vars)
    <2> DEFINE b == call[h].action
    <2>1. holder = h /\ holder # Nobody
      BY <1>4, TasksDistinct DEF PlaceReturns
    <2>2. b \in Actions /\ status[b] = "APPROVED" /\ result[b] = "none"
      BY <1>0, <2>1, CallAction DEF IInv, HolderInv
    <2>3. /\ status' = [status EXCEPT ![b] = StatusAfter(o)]
          /\ result' = [result EXCEPT ![b] = ResultAfter(o)]
          /\ \/ orders' = [orders EXCEPT ![b] = @ + 1]
             \/ UNCHANGED orders
      BY <1>4 DEF PlaceReturns
    <2>4. StatusAfter(o) \in {"APPROVED", "EXECUTED"} /\ ResultAfter(o) # "none"
      BY DEF StatusAfter, ResultAfter
    <2>5. Decision[b] = "granted" /\ Decision'[b] = "settled"
      BY <1>0, <2>2, <2>3, <2>4 DEF Decision, Absent, TypeOK
    <2>6. Decision' = [Decision EXCEPT ![b] = "settled"]
      BY <1>0, <2>2, <2>3, <2>5, DecisionChange
    <2>7. Approval!Settle(b)
      BY <2>3, <2>5, <2>6 DEF Approval!Settle
    <2>8. QED
      BY <2>2, <2>7 DEF Approval!Next
  <1>5. ASSUME NEW h \in Handlers, RejectAction(h)
        PROVE  [Approval!Next]_(Approval!vars)
    BY <1>0, <1>5, RefuseStep DEF RejectAction, TypeOK
  <1>6. ASSUME NEW h \in Handlers, CancelAction(h)
        PROVE  [Approval!Next]_(Approval!vars)
    BY <1>0, <1>6, RefuseStep DEF CancelAction, TypeOK
  <1>7. ASSUME NEW h \in Handlers, NEW c \in Calls, Request(h, c)
        PROVE  [Approval!Next]_(Approval!vars)
    BY <1>7, RefuseStep DEF Request
  <1>8. ASSUME NEW a \in Actions, DeadlinePasses(a)
        PROVE  [Approval!Next]_(Approval!vars)
    BY <1>8, RefuseStep DEF DeadlinePasses
  <1>9. CASE CleanupWakes
    BY <1>9, RefuseStep DEF CleanupWakes
  <1>10. CASE CleanupSweep
    BY <1>0, <1>10, RefuseStep DEF CleanupSweep, Expires
  <1>11. CASE Stop
    BY <1>11, RefuseStep DEF Stop
  <1>12. CASE UNCHANGED vars
    BY <1>12, RefuseStep DEF vars
  <1>13. QED
    BY <1>1, <1>2, <1>3, <1>4, <1>5, <1>6, <1>7, <1>8, <1>9, <1>10, <1>11, <1>12
       DEF Next, Runs

\* The action center implements the safety part of OrderApproval.
THEOREM RefinesApproval == Spec => Approval!Safety
  <1>1. Init => Approval!Init
    BY DEF Init, Approval!Init, Decision, Absent
  <1>2. QED
    BY <1>1, StepRefines, Invariance, PTL DEF Spec, Approval!Safety
=============================================================================
