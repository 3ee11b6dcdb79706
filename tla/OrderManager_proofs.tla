------------------------- MODULE OrderManager_proofs ------------------------
(***************************************************************************)
(* For any number of orders, clients and statuses: the registry of tasks   *)
(* is exact, each round of a status reaches all clients that are there when *)
(* it is over, and they are sent the end of each order they were told of.  *)
(***************************************************************************)
EXTENDS OrderManager, FiniteSetTheorems, TLAPS

\* A task is cancelled only by stop(), and only tasks of placed orders are.
QuietInv == /\ stopper = "idle" => cancelled = {}
            /\ \A o \in registry \union cancelled : broker[o] # None

\* Clients that are connected, or were sent a status, have a callback.
ShownInv == \A c \in Clients :
               c \in online \/ (\E o \in Orders : shown[c][o] # None) =>
                   \E i \in 1..Len(callbacks) : callbacks[i] = c

\* A task that is sending has sent the status to the clients before its place
\* in the list.
SendingInv == \A o \in Orders : task[o] = "sending" =>
                 /\ seen[o] # Missing
                 /\ \A i \in 1..(at[o] - 1) :
                       callbacks[i] \in online => shown[callbacks[i]][o] = seen[o]

\* A new order has no task yet.
NewInv == \A o \in Orders : broker[o] = None => task[o] = "none"

IInv == /\ TypeOK
        /\ QuietInv
        /\ ShownInv
        /\ SendingInv
        /\ NewInv
        /\ RegistryIsExact
        /\ EndIsShown

\* Appending a callback keeps the ones before it.
LEMMA AppendKeeps ==
    ASSUME NEW S, NEW s \in Seq(S), NEW e \in S
    PROVE  /\ Append(s, e) \in Seq(S)
           /\ Len(Append(s, e)) = Len(s) + 1
           /\ \A i \in 1..Len(s) : Append(s, e)[i] = s[i]
           /\ Append(s, e)[Len(s) + 1] = e
  OBVIOUS

\* A set of orders has a size.
LEMMA SizeType == ASSUME NEW S \in SUBSET Orders PROVE Cardinality(S) \in Nat
  BY FS_Subset, FS_CardinalityType, ManagerAssumptions

LEMMA InitIInv == Init => IInv
  <1> SUFFICES ASSUME Init PROVE IInv
    OBVIOUS
  <1>1. TypeOK
    BY DEF Init, TypeOK, TaskStates
  <1>2. QuietInv /\ ShownInv /\ SendingInv /\ NewInv
    BY DEF Init, QuietInv, ShownInv, SendingInv, NewInv
  <1>3. RegistryIsExact
    BY DEF Init, RegistryIsExact, Running
  <1>4. EndIsShown
    BY DEF Init, EndIsShown
  <1>5. QED
    BY <1>1, <1>2, <1>3, <1>4 DEF IInv

LEMMA StepIInv == IInv /\ [Next]_vars => IInv'
  <1> SUFFICES ASSUME IInv, [Next]_vars PROVE IInv'
    OBVIOUS
  <1> USE DEF IInv
  <1>1. ASSUME NEW o \in Orders, NEW s \in Statuses, BrokerMoves(o, s) PROVE IInv'
    <2> USE <1>1 DEF BrokerMoves, tracking, clients, stopping
    <2>1. TypeOK' BY DEF TypeOK
    <2>2. (QuietInv /\ ShownInv /\ SendingInv)'
      BY ManagerAssumptions
      DEF QuietInv, ShownInv, SendingInv, TypeOK, None, OrderStatus
    <2>3. NewInv' BY ManagerAssumptions DEF NewInv, TypeOK, None, OrderStatus
    <2>4. (RegistryIsExact /\ EndIsShown)'
      BY DEF RegistryIsExact, Running, EndIsShown
    <2>5. QED BY <2>1, <2>2, <2>3, <2>4
  <1>2. ASSUME NEW o \in Orders, NEW out \in Outcomes, NEW s \in Statuses,
               PlaceOrder(o, out, s)
        PROVE  IInv'
    <2> USE <1>2 DEF PlaceOrder, clients, stopping
    <2>1. task[o] = "none" BY DEF NewInv
    <2>2. TypeOK' BY DEF TypeOK, TaskStates
    <2>3. QuietInv'
      BY ManagerAssumptions DEF QuietInv, TypeOK, None, OrderStatus
    <2>4. (SendingInv /\ ShownInv)' BY DEF SendingInv, ShownInv, TypeOK
    <2>5. NewInv'
      BY ManagerAssumptions DEF NewInv, TypeOK, None, OrderStatus
    <2>6. RegistryIsExact' BY <2>1 DEF RegistryIsExact, Running, TypeOK
    <2>7. EndIsShown'
      BY <2>1 DEF EndIsShown, TypeOK
    <2>8. QED BY <2>2, <2>3, <2>4, <2>5, <2>6, <2>7
  <1>3. ASSUME NEW o \in Orders, Polls(o) PROVE IInv'
    <2>1. CASE StartPolling(o) \/ AskStatus(o)
      <3> USE <2>1 DEF StartPolling, AskStatus, Steps, clients, stopping
      <3>1. TypeOK' BY DEF TypeOK, TaskStates
      <3>2. (QuietInv /\ ShownInv)' BY DEF QuietInv, ShownInv
      <3>3. (SendingInv /\ NewInv)' BY DEF SendingInv, NewInv, TypeOK
      <3>4. RegistryIsExact' BY DEF RegistryIsExact, Running, TypeOK
      <3>5. EndIsShown'
        BY DEF EndIsShown, TypeOK
      <3>6. QED BY <3>1, <3>2, <3>3, <3>4, <3>5
    <2>2. CASE GetStatus(o)
      <3> USE <2>2 DEF GetStatus, Steps, clients, stopping
      <3>1. TypeOK'
        <4>1. /\ broker[o] \in Statuses \union {None, Missing}
              /\ Len(callbacks) \in Nat
          BY DEF TypeOK
        <4>2. QED BY <4>1 DEF TypeOK, TaskStates
      <3>2. (QuietInv /\ ShownInv)' BY DEF QuietInv, ShownInv
      <3>3. broker[o] # Missing
        BY ManagerAssumptions DEF TypeOK, None, Missing, OrderStatus
      <3>4. (SendingInv /\ NewInv)' BY <3>3 DEF SendingInv, NewInv, TypeOK
      <3>5. RegistryIsExact' BY DEF RegistryIsExact, Running, TypeOK
      <3>6. EndIsShown'
        BY DEF EndIsShown, TypeOK
      <3>7. QED BY <3>1, <3>2, <3>3, <3>4, <3>5, <3>6
    <2>3. CASE MissStatus(o)
      <3> USE <2>3 DEF MissStatus, EndTask, Steps, clients, stopping
      <3>1. TypeOK' BY DEF TypeOK, TaskStates
      <3>2. (QuietInv /\ ShownInv)' BY DEF QuietInv, ShownInv
      <3>3. (SendingInv /\ NewInv)' BY DEF SendingInv, NewInv, TypeOK
      <3>4. RegistryIsExact' BY DEF RegistryIsExact, Running, TypeOK
      <3>5. EndIsShown'
        BY DEF EndIsShown, TypeOK
      <3>6. QED BY <3>1, <3>2, <3>3, <3>4, <3>5
    <2>4. CASE SendStatus(o)
      <3> DEFINE c == callbacks[at[o]]
      <3> USE <2>4 DEF SendStatus, NextCallback, Steps, clients, stopping
      <3>1. at[o] \in 1..Len(callbacks) /\ c \in Clients
        BY DEF TypeOK
      <3>2. TypeOK'
        <4>1. shown' \in [Clients -> [Orders -> Statuses \union {None}]]
          <5>1. CASE c \in online
            <6>1. seen[o] \in Statuses \union {None}
              BY DEF TypeOK, SendingInv
            <6>2. QED BY <5>1, <6>1, <3>1 DEF TypeOK
          <5>2. CASE c \notin online
            BY <5>2 DEF TypeOK
          <5>3. QED BY <5>1, <5>2
        <4>2. QED BY <4>1, <3>1 DEF TypeOK
      <3>3. QuietInv' BY DEF QuietInv
      <3>4. ShownInv' BY <3>1 DEF ShownInv, TypeOK
      <3>5. SendingInv' BY <3>1 DEF SendingInv, TypeOK
      <3>6. NewInv' BY DEF NewInv
      <3>7. RegistryIsExact' BY DEF RegistryIsExact, Running
      <3>8. EndIsShown'
        BY <3>1 DEF EndIsShown, TypeOK
      <3>9. QED BY <3>2, <3>3, <3>4, <3>5, <3>6, <3>7, <3>8
    <2>5. CASE StatusSent(o) /\ seen[o] \in Ends
      <3> USE <2>5 DEF StatusSent, EndTask, Steps, clients, stopping
      <3>1. TypeOK' BY DEF TypeOK, TaskStates
      <3>2. (QuietInv /\ ShownInv)' BY DEF QuietInv, ShownInv
      <3>3. (SendingInv /\ NewInv)' BY DEF SendingInv, NewInv, TypeOK
      <3>4. RegistryIsExact' BY DEF RegistryIsExact, Running, TypeOK
      <3>6. \A c \in online : shown[c][o] # None => shown[c][o] = seen[o]
        <4>1. SUFFICES ASSUME NEW c \in online, shown[c][o] # None
                       PROVE  shown[c][o] = seen[o]
          OBVIOUS
        <4>2. PICK i \in 1..Len(callbacks) : callbacks[i] = c
          BY <4>1 DEF ShownInv, TypeOK
        <4>3. i \in 1..(at[o] - 1)
          BY DEF TypeOK
        <4>4. QED BY <4>2, <4>3 DEF SendingInv
      <3>7. EndIsShown' BY <3>6 DEF EndIsShown, TypeOK
      <3>8. QED BY <3>1, <3>2, <3>3, <3>4, <3>7
    <2>6. CASE StatusSent(o) /\ seen[o] \notin Ends
      <3> USE <2>6 DEF StatusSent, Steps, clients, stopping
      <3>1. TypeOK' BY DEF TypeOK, TaskStates
      <3>2. (QuietInv /\ ShownInv)' BY DEF QuietInv, ShownInv
      <3>3. (SendingInv /\ NewInv)' BY DEF SendingInv, NewInv, TypeOK
      <3>4. RegistryIsExact' BY DEF RegistryIsExact, Running, TypeOK
      <3>5. EndIsShown'
        BY DEF EndIsShown, TypeOK
      <3>6. QED BY <3>1, <3>2, <3>3, <3>4, <3>5
    <2>7. CASE TaskCancelled(o)
      <3> USE <2>7 DEF TaskCancelled, EndTask, clients, stopping
      <3>1. stopper # "idle" BY DEF QuietInv
      <3>2. TypeOK' BY DEF TypeOK, TaskStates
      <3>3. (QuietInv /\ ShownInv)' BY <3>1 DEF QuietInv, ShownInv
      <3>4. SendingInv' BY DEF SendingInv, TypeOK
      <3>5. NewInv' BY DEF NewInv, QuietInv, TypeOK
      <3>6. (RegistryIsExact /\ EndIsShown)'
        BY <3>1 DEF RegistryIsExact, EndIsShown
      <3>7. QED BY <3>2, <3>3, <3>4, <3>5, <3>6
    <2>8. QED BY <1>3, <2>1, <2>2, <2>3, <2>4, <2>5, <2>6, <2>7 DEF Polls
  <1>4. ASSUME NEW c \in Clients, ClientJoins(c) PROVE IInv'
    <2> USE <1>4 DEF ClientJoins, tracking, stopping
    <2>1. /\ callbacks' \in Seq(Clients)
          /\ Len(callbacks') = Len(callbacks) + 1
          /\ \A i \in 1..Len(callbacks) : callbacks'[i] = callbacks[i]
      BY AppendKeeps DEF Registered, TypeOK
    <2>2. \A o \in Orders : shown[c][o] = None
      BY DEF ShownInv
    <2>3. Len(callbacks) \in Nat
      BY DEF TypeOK
    <2>4. TypeOK'
      BY <2>1, <2>3 DEF TypeOK
    <2>5. QuietInv' BY DEF QuietInv
    <2>6. ShownInv'
      <3> SUFFICES ASSUME NEW d \in Clients,
                          d \in online' \/ \E o \in Orders : shown[d][o] # None
                   PROVE  \E i \in 1..Len(callbacks') : callbacks'[i] = d
        BY DEF ShownInv
      <3>1. CASE d = c
        BY <2>3, <3>1, AppendKeeps DEF Registered, TypeOK
      <3>2. CASE d # c
        <4>1. d \in online \/ \E o \in Orders : shown[d][o] # None
          BY <3>2
        <4>2. PICK i \in 1..Len(callbacks) : callbacks[i] = d
          BY <4>1 DEF ShownInv
        <4>3. i \in 1..Len(callbacks') /\ callbacks'[i] = d
          BY <2>1, <2>3, <4>2
        <4>4. QED
          BY <4>3
      <3>3. QED
        BY <3>1, <3>2
    <2>7. SendingInv'
      <3>1. \A o \in Orders : \A i \in 1..(at[o] - 1) :
               i \in 1..Len(callbacks) /\ callbacks'[i] = callbacks[i]
        BY <2>1, <2>3 DEF TypeOK
      <3>2. QED BY <3>1 DEF SendingInv
    <2>8. (NewInv /\ RegistryIsExact)'
      BY DEF NewInv, RegistryIsExact, Running
    <2>9. EndIsShown' BY <2>2 DEF EndIsShown
    <2>10. QED BY <2>4, <2>5, <2>6, <2>7, <2>8, <2>9
  <1>5. ASSUME NEW c \in Clients, ClientLeaves(c) PROVE IInv'
    <2> USE <1>5 DEF ClientLeaves, tracking, stopping
    <2>1. TypeOK' BY DEF TypeOK
    <2>2. (QuietInv /\ ShownInv /\ SendingInv /\ NewInv)'
      BY DEF QuietInv, ShownInv, SendingInv, NewInv
    <2>3. (RegistryIsExact /\ EndIsShown)'
      BY DEF RegistryIsExact, Running, EndIsShown
    <2>4. QED BY <2>1, <2>2, <2>3
  <1>6. CASE StopCancels \/ StopAtOnce \/ Stops
    <2>1. /\ stopper' # "idle"
          /\ UNCHANGED <<broker, task, seen, at, shown, clients>>
      BY <1>6 DEF StopCancels, StopAtOnce, Stops, StopAwaits, StopReturns,
                  StopRaises, AtNext, tracking, clients
    <2>2. TypeOK'
      <3>1. CASE StopCancels
        <4>1. size' \in Nat
          BY <3>1, SizeType DEF StopCancels, TypeOK
        <4>2. /\ cancelled' \subseteq Orders /\ registry' \subseteq Orders
              /\ stopper' = "waiting" /\ waited' \subseteq Orders
          BY <3>1 DEF StopCancels, ToCancel, TypeOK
        <4>3. QED BY <2>1, <4>1, <4>2 DEF TypeOK, clients
      <3>2. CASE StopAtOnce \/ Stops
        <4>1. /\ cancelled' = cancelled
              /\ registry' \subseteq Orders
              /\ stopper' \in {"waiting", "done", "raised"}
              /\ waited' \subseteq Orders
              /\ size' = size
          BY <3>2 DEF StopAtOnce, Stops, StopAwaits, StopReturns, StopRaises,
                      AtNext, tracking, TypeOK
        <4>2. QED BY <2>1, <4>1 DEF TypeOK, clients
      <3>3. QED BY <1>6, <3>1, <3>2
    <2>3. registry' \union cancelled' \subseteq registry \union cancelled
      BY <1>6 DEF StopCancels, ToCancel, StopAtOnce, Stops, StopAwaits,
                  StopReturns, StopRaises, tracking
    <2>4. (QuietInv /\ ShownInv /\ SendingInv /\ NewInv)'
      BY <2>1, <2>3 DEF QuietInv, ShownInv, SendingInv, NewInv, clients
    <2>5. (RegistryIsExact /\ EndIsShown)'
      BY <2>1 DEF RegistryIsExact, EndIsShown
    <2>6. QED BY <2>2, <2>4, <2>5
  <1>7. CASE UNCHANGED vars
    <2> USE <1>7 DEF vars, tracking, clients, stopping
    <2>1. TypeOK' BY DEF TypeOK
    <2>2. (QuietInv /\ ShownInv /\ SendingInv /\ NewInv)'
      BY DEF QuietInv, ShownInv, SendingInv, NewInv
    <2>3. (RegistryIsExact /\ EndIsShown)'
      BY DEF RegistryIsExact, Running, EndIsShown
    <2>4. QED BY <2>1, <2>2, <2>3
  <1>8. QED BY <1>1, <1>2, <1>3, <1>4, <1>5, <1>6, <1>7 DEF Next

THEOREM Invariance == Spec => []IInv
  <1>1. Spec => Init /\ [][Next]_vars
    BY DEF Spec
  <1>2. QED BY <1>1, InitIInv, StepIInv, PTL

\* Until shutdown _status_tasks holds exactly the running tasks, whatever calls
\* of place_order, polls and clients interleave.
THEOREM RegistryExact == Spec => []RegistryIsExact
  <1>1. IInv => RegistryIsExact
    BY DEF IInv
  <1>2. QED BY <1>1, Invariance, PTL

\* Every variable stays in its type.
THEOREM TypeCorrect == Spec => []TypeOK
  <1>1. IInv => TypeOK
    BY DEF IInv
  <1>2. QED BY <1>1, Invariance, PTL

\* When a task goes on from sending, it has sent its status to every client that
\* is connected, as it has called back all and they have callbacks.
THEOREM RoundsReach == Spec => RoundReachesAll
  <1>1. IInv /\ [Next]_vars =>
           [\A o \in Orders \ cancelled :
               task[o] = "sending" /\ task'[o] # "sending" =>
                   \A c \in online : shown[c][o] = seen[o]]_vars
    <2> SUFFICES ASSUME IInv, Next, NEW o \in Orders \ cancelled,
                        task[o] = "sending", task'[o] # "sending", NEW c \in online
                 PROVE  shown[c][o] = seen[o]
      BY DEF vars
    <2> USE DEF IInv
    <2>1. StatusSent(o)
      <3>1. ASSUME NEW p \in Orders, Polls(p) PROVE p = o /\ StatusSent(o)
        BY <3>1 DEF Polls, StartPolling, AskStatus, GetStatus, MissStatus, EndTask,
                    SendStatus, StatusSent, TaskCancelled, Steps, TypeOK
      <3>2. ASSUME NEW p \in Orders, NEW s \in Statuses, BrokerMoves(p, s) PROVE FALSE
        BY <3>2 DEF BrokerMoves, tracking
      <3>3. ASSUME NEW p \in Orders, NEW out \in Outcomes, NEW s \in Statuses,
                   PlaceOrder(p, out, s)
            PROVE  FALSE
        BY <3>3 DEF PlaceOrder, NewInv, TypeOK
      <3>4. ASSUME NEW d \in Clients, ClientJoins(d) \/ ClientLeaves(d) PROVE FALSE
        BY <3>4 DEF ClientJoins, ClientLeaves, tracking
      <3>5. CASE StopCancels \/ StopAtOnce \/ Stops
        BY <3>5 DEF StopCancels, StopAtOnce, Stops, StopAwaits, StopReturns, StopRaises,
                    tracking
      <3>6. QED
        BY <3>1, <3>2, <3>3, <3>4, <3>5 DEF Next
    <2>2. PICK i \in 1..Len(callbacks) : callbacks[i] = c
      BY DEF ShownInv, TypeOK
    <2>3. i \in 1..(at[o] - 1)
      BY <2>1 DEF StatusSent, TypeOK
    <2>4. QED
      BY <2>2, <2>3 DEF SendingInv
  <1>2. Spec => [][Next]_vars
    BY DEF Spec
  <1>3. QED
    BY <1>1, <1>2, Invariance, PTL DEF RoundReachesAll

\* A client that stays and was told about an order is told how it ended.
THEOREM EndShown == Spec => []EndIsShown
  <1>1. IInv => EndIsShown
    BY DEF IInv
  <1>2. QED BY <1>1, Invariance, PTL
=============================================================================
