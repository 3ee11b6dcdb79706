--------------------------- MODULE GTTOrders_proofs -------------------------
(***************************************************************************)
(* For any number of GTTs, prices and conditions: one order per OCO,       *)
(* nothing left over by GTTs that did not trigger, no TRIGGERED without an *)
(* order under way, nothing done is redone, and each step is a step of     *)
(* OrderApproval or leaves it unchanged.                                   *)
(***************************************************************************)
EXTENDS GTTOrders, TLAPS, WellFoundedInduction

\* The first of a set of natural numbers is one of them.
LEMMA FirstIn ==
    ASSUME NEW S \in SUBSET Nat, S # {}
    PROVE  First(S) \in S
  <1> DEFINE R == OpToRel(<, Nat)
  <1>1. IsWellFoundedOn(R, Nat)
    BY NatLessThanWellFounded
  <1>2. R = {p \in Nat \X Nat : p[1] < p[2]}
    BY Zenon DEF OpToRel
  <1> HIDE DEF R
  <1>3. PICK m \in S : \A j \in S : ~(<<j, m>> \in R)
    BY <1>1, WFMin
  <1>4. ASSUME NEW j \in S, j < m PROVE FALSE
    <2>1. <<j, m>> \in Nat \X Nat
      OBVIOUS
    <2>2. <<j, m>>[1] < <<j, m>>[2]
      BY <1>4
    <2>3. <<j, m>> \in {p \in Nat \X Nat : p[1] < p[2]}
      BY <2>1, <2>2
    <2>4. QED
      BY <1>2, <1>3, <2>3
  <1>5. \A j \in S : m <= j
    BY <1>4
  <1>6. QED
    BY <1>5 DEF First

\* A set of one condition ends with that condition.
LEMMA FirstOfOne == ASSUME NEW i \in Nat PROVE First({i}) = i
  BY FirstIn

\* The conditions a visit fires are conditions, at least one of them, and just
\* one for a GTT that places one order at most.
LEMMA FiresType ==
    ASSUME NEW g, NEW hits \in SUBSET {i \in Indices : trigger[g][i] # Unknown},
           hits # {}
    PROVE  /\ Fires(g, hits) \in SUBSET Indices
           /\ Fires(g, hits) # {}
           /\ OneShot(g) => \E i \in Indices : Fires(g, hits) = {i}
  <1>1. Indices \subseteq Nat
    BY TwoConditions DEF Indices
  <1>2. First(hits) \in hits
    BY <1>1, FirstIn
  <1>3. CASE type[g] = "OCO"
    BY <1>2, <1>3 DEF Fires
  <1>4. CASE type[g] # "OCO"
    <2>1. Fires(g, hits) = hits
      BY <1>4 DEF Fires
    <2>2. OneShot(g) => hits = {First(hits)}
      BY <1>2, <1>4 DEF OneShot
    <2>3. QED
      BY <1>2, <2>1, <2>2
  <1>5. QED
    BY <1>3, <1>4

\* What a request may ask for is a list of conditions.
LEMMA ListsType == \A t : ConditionLists(t) \subseteq Conditions
  BY DEF ConditionLists, ListOf

\* The conditions marked are conditions.
LEMMA MarksType ==
    ASSUME NEW g \in GTTs, NEW i \in Indices, fired[g] \in SUBSET Indices
    PROVE  Marks(g, i) \in SUBSET Indices
  BY DEF Marks

\* A GTT that was never created is as untouched as one that is waiting.
AbsentInv == \A g \in GTTs : status[g] = Absent => orders[g] = 0 /\ fired[g] = {}

\* A GTT that places one order at most has left at most one at the broker.
OneOrderEach == \A g \in GTTs : OneShot(g) => orders[g] <= 1

\* Conditions are executed only within a sweep, for the GTT the sweep visits,
\* which is TRIGGERED; one that places one order at most has one to execute and no
\* order yet.
FiringInv ==
    /\ monitor # "sweeping" => firing = {}
    /\ firing # {} =>
          /\ todo # <<>>
          /\ status[Head(todo)] = "TRIGGERED"
          /\ OneShot(Head(todo)) =>
                orders[Head(todo)] = 0 /\ \E i \in Indices : firing = {i}

IInv == /\ TypeOK
        /\ OneOrderEach
        /\ UntriggeredIsUntouched
        /\ TriggeredIsBeingPlaced
        /\ AbsentInv
        /\ FiringInv

\* The initial state satisfies the inductive invariant.
LEMMA InitInv == Init => IInv
  <1> SUFFICES ASSUME Init PROVE IInv
    OBVIOUS
  <1>1. NoConditions \in Conditions
    BY DEF NoConditions, Conditions
  <1>2. TypeOK
    BY <1>1, SomeSymbol DEF Init, TypeOK, GTTType, Sides
  <1>3. QED
    BY <1>2 DEF Init, IInv, OneOrderEach, UntriggeredIsUntouched, Absent,
                TriggeredIsBeingPlaced, AbsentInv, FiringInv

\* A step keeps the types.
LEMMA StepType == IInv /\ [Next]_vars => TypeOK'
  <1> SUFFICES ASSUME IInv, [Next]_vars PROVE TypeOK'
    OBVIOUS
  <1> USE DEF IInv, request
  <1>1. ASSUME NEW g \in GTTs, NEW t \in GTTType, NEW d \in Sides, NEW s \in Symbols,
               NEW days \in Validities, NEW c \in ConditionLists(t),
               CreateGTT(g, t, d, s, c, days)
        PROVE  TypeOK'
    <2>1. c \in Conditions
      BY ListsType
    <2>2. book' \in Seq(GTTs)
      BY <1>1 DEF CreateGTT, TypeOK
    <2>3. QED
      BY <1>1, <2>1, <2>2 DEF CreateGTT, TypeOK, GTTStatus
  <1>2. ASSUME NEW g \in GTTs, CancelGTT(g) PROVE TypeOK'
    BY <1>2 DEF CancelGTT, TypeOK, GTTStatus
  <1>3. ASSUME NEW g \in GTTs, NEW c \in ConditionLists(type[g]), ModifyConditions(g, c)
        PROVE  TypeOK'
    <2>1. c \in Conditions
      BY ListsType
    <2>2. QED
      BY <1>3, <2>1 DEF ModifyConditions, TypeOK
  <1>4. ASSUME NEW g \in GTTs, NEW days \in Validities, ModifyValidity(g, days)
        PROVE  TypeOK'
    BY <1>4 DEF ModifyValidity, TypeOK
  <1>5. ASSUME NEW g \in GTTs, DeadlinePasses(g) PROVE TypeOK'
    BY <1>5 DEF DeadlinePasses, TypeOK
  <1>6. ASSUME NEW s \in Symbols, NEW p \in Prices, UpdatePrice(s, p) PROVE TypeOK'
    BY <1>6 DEF UpdatePrice, TypeOK
  <1>7. CASE SweepStarts
    BY <1>7 DEF SweepStarts, TypeOK
  <1>8. CASE SweepEnds
    BY <1>8 DEF SweepEnds, TypeOK
  <1>9. ASSUME NEW g \in GTTs, VisitExpires(g) PROVE TypeOK'
    <2>1. todo' \in Seq(GTTs)
      BY <1>9 DEF VisitExpires, Visits, TypeOK
    <2>2. QED
      BY <1>9, <2>1 DEF VisitExpires, TypeOK, GTTStatus
  <1>10. ASSUME NEW g \in GTTs, VisitPasses(g) PROVE TypeOK'
    <2>1. todo' \in Seq(GTTs)
      BY <1>10 DEF VisitPasses, Visits, TypeOK
    <2>2. QED
      BY <1>10, <2>1 DEF VisitPasses, TypeOK
  <1>11. ASSUME NEW g \in GTTs, VisitRaises(g) PROVE TypeOK'
    BY <1>11 DEF VisitRaises, TypeOK
  <1>12. ASSUME NEW g \in GTTs, VisitTriggers(g) PROVE TypeOK'
    <2>1. Hits(g) \in SUBSET Indices /\ Hits(g) # {} /\ Indices \subseteq Nat
      BY <1>12, TwoConditions DEF VisitTriggers, Hits, Indices
    <2>2. Hits(g) \in SUBSET {i \in Indices : trigger[g][i] # Unknown}
      BY NotNumbers DEF Hits
    <2>3. firing' \in SUBSET Indices
      BY <1>12, <2>1, <2>2, FiresType DEF VisitTriggers
    <2>4. First(Hits(g)) \in Indices
      BY <2>1, FirstIn
    <2>5. fired' \in [GTTs -> SUBSET Indices]
      BY <1>12, <2>4, MarksType DEF VisitTriggers, TypeOK
    <2>6. QED
      BY <1>12, <2>3, <2>5 DEF VisitTriggers, TypeOK, GTTStatus
  <1>13. ASSUME NEW g \in GTTs, NEW o \in Outcomes, PlaceReturns(g, o) PROVE TypeOK'
    <2>1. firing' \in SUBSET Indices
      BY <1>13 DEF PlaceReturns, TypeOK
    <2>2. orders' \in [GTTs -> Nat]
      BY <1>13 DEF PlaceReturns, TypeOK
    <2>3. status' \in [GTTs -> GTTStatus \union {Absent}]
      BY <1>13 DEF PlaceReturns, TypeOK, StatusAfter, GTTStatus
    <2>4. todo' \in Seq(GTTs)
      <3>1. todo # <<>>
        BY <1>13 DEF PlaceReturns, FiringInv
      <3>2. Tail(todo) \in Seq(GTTs)
        BY <3>1 DEF TypeOK
      <3>3. todo' \in {todo, Tail(todo)}
        BY <1>13 DEF PlaceReturns
      <3>4. QED
        BY <3>2, <3>3 DEF TypeOK
    <2>5. fired' \in [GTTs -> SUBSET Indices]
      <3>1. CASE firing' = {}
        BY <1>13, <3>1 DEF PlaceReturns, TypeOK
      <3>2. CASE firing' # {}
        <4>1. First(firing') \in Indices
          <5>1. firing' \in SUBSET Nat
            BY <2>1, TwoConditions DEF Indices
          <5>2. First(firing') \in firing'
            BY <3>2, <5>1, FirstIn
          <5>3. QED
            BY <2>1, <5>2
        <4>2. Marks(g, First(firing')) \in SUBSET Indices
          BY <4>1, MarksType DEF TypeOK
        <4>3. fired' = [fired EXCEPT ![g] = Marks(g, First(firing'))]
          BY <1>13, <3>2 DEF PlaceReturns
        <4>4. QED
          BY <4>2, <4>3 DEF TypeOK
      <3>3. QED
        BY <3>1, <3>2
    <2>6. QED
      BY <1>13, <2>1, <2>2, <2>3, <2>4, <2>5 DEF PlaceReturns, TypeOK
  <1>14. CASE Stop
    <2>1. firing # {} => Head(todo) \in GTTs
      BY DEF FiringInv, TypeOK
    <2>2. orders' \in [GTTs -> Nat]
      <3>1. CASE UNCHANGED orders
        BY <3>1 DEF TypeOK
      <3>2. CASE firing # {} /\ orders' = [orders EXCEPT ![Head(todo)] = @ + 1]
        <4>1. orders[Head(todo)] + 1 \in Nat
          BY <2>1, <3>2 DEF TypeOK
        <4>2. QED
          BY <3>2, <4>1 DEF TypeOK
      <3>3. QED
        BY <1>14, <3>1, <3>2 DEF Stop
    <2>3. monitor' = "stopped" /\ todo' = <<>> /\ firing' = {} /\ late' = {}
      BY <1>14 DEF Stop
    <2>4. UNCHANGED <<status, type, side, symbol, trigger, validity, fired,
                      overdue, book, price>>
      BY <1>14 DEF Stop
    <2>5. todo' \in Seq(GTTs) /\ firing' \in SUBSET Indices /\ late' \in SUBSET GTTs
      BY <2>3
    <2>6. QED
      BY <2>2, <2>3, <2>4, <2>5 DEF TypeOK
  <1>15. CASE UNCHANGED vars
    BY <1>15 DEF vars, TypeOK
  <1>16. QED
    BY <1>1, <1>2, <1>3, <1>4, <1>5, <1>6, <1>7, <1>8, <1>9, <1>10, <1>11, <1>12,
       <1>13, <1>14, <1>15
       DEF Next, Requests, Monitors

\* A step that leaves the orders, the marks and the visits alone, and changes
\* statuses only among those that place nothing, keeps the invariant.
LEMMA QuietStep ==
    ASSUME IInv, TypeOK', firing = {}, firing' = {},
           UNCHANGED <<orders, fired>>,
           \A g \in GTTs :
              \/ /\ status'[g] = status[g]
                 /\ type'[g] = type[g] /\ trigger'[g] = trigger[g]
              \/ /\ status[g] \in {Absent, "ACTIVE"}
                 /\ status'[g] \in {"ACTIVE", "CANCELLED", "EXPIRED"},
           monitor' = "stopped" \/ monitor # "stopped"
    PROVE  IInv'
  <1> USE DEF IInv
  <1>1. OneOrderEach'
    <2>1. ASSUME NEW g \in GTTs, OneShot(g)' PROVE orders[g] <= 1
      <3>1. CASE type'[g] = type[g] /\ trigger'[g] = trigger[g]
        BY <2>1, <3>1 DEF OneOrderEach, OneShot
      <3>2. CASE status[g] \in {Absent, "ACTIVE"}
        BY <3>2 DEF UntriggeredIsUntouched, AbsentInv
      <3>3. QED
        BY <3>1, <3>2
    <2>2. QED
      BY <2>1 DEF OneOrderEach
  <1>2. UntriggeredIsUntouched' /\ AbsentInv'
    BY DEF UntriggeredIsUntouched, AbsentInv, Absent
  <1>3. TriggeredIsBeingPlaced'
    BY DEF TriggeredIsBeingPlaced
  <1>4. FiringInv'
    BY DEF FiringInv
  <1>5. QED
    BY <1>1, <1>2, <1>3, <1>4

\* A step keeps the inductive invariant.
LEMMA StepInv == IInv /\ [Next]_vars => IInv'
  <1> SUFFICES ASSUME IInv, [Next]_vars PROVE IInv'
    OBVIOUS
  <1>0. TypeOK' /\ TypeOK
    BY StepType DEF IInv
  <1>a. monitor # "sweeping" => firing = {}
    BY DEF IInv, FiringInv
  <1> USE DEF request, OneShot
  <1>1. ASSUME NEW g \in GTTs, NEW t \in GTTType, NEW d \in Sides, NEW s \in Symbols,
               NEW days \in Validities, NEW c \in ConditionLists(t),
               CreateGTT(g, t, d, s, c, days)
        PROVE  IInv'
    BY <1>0, <1>a, <1>1, QuietStep DEF CreateGTT, TypeOK
  <1>2. ASSUME NEW g \in GTTs, CancelGTT(g) PROVE IInv'
    BY <1>0, <1>a, <1>2, QuietStep DEF CancelGTT, Cancellable, TypeOK
  <1>3. ASSUME NEW g \in GTTs, NEW c \in ConditionLists(type[g]), ModifyConditions(g, c)
        PROVE  IInv'
    <2>1. fired' = fired
      BY <1>0, <1>3 DEF ModifyConditions, IInv, UntriggeredIsUntouched, TypeOK
    <2>2. QED
      BY <1>0, <1>a, <1>3, <2>1, QuietStep DEF ModifyConditions
  <1>4. ASSUME NEW g \in GTTs, NEW days \in Validities, ModifyValidity(g, days)
        PROVE  IInv'
    BY <1>0, <1>a, <1>4, QuietStep DEF ModifyValidity
  <1>5. ASSUME NEW g \in GTTs, DeadlinePasses(g) PROVE IInv'
    BY <1>0, <1>5
       DEF DeadlinePasses, IInv, OneOrderEach, UntriggeredIsUntouched,
           TriggeredIsBeingPlaced, AbsentInv, FiringInv
  <1>6. ASSUME NEW s \in Symbols, NEW p \in Prices, UpdatePrice(s, p) PROVE IInv'
    BY <1>0, <1>6
       DEF UpdatePrice, IInv, OneOrderEach, UntriggeredIsUntouched,
           TriggeredIsBeingPlaced, AbsentInv, FiringInv
  <1>7. CASE SweepStarts
    BY <1>0, <1>a, <1>7, QuietStep DEF SweepStarts
  <1>8. CASE SweepEnds
    <2>1. firing = {}
      BY <1>8 DEF SweepEnds, IInv, FiringInv
    <2>2. QED
      BY <1>0, <1>8, <2>1, QuietStep DEF SweepEnds
  <1>9. ASSUME NEW g \in GTTs, VisitExpires(g) PROVE IInv'
    BY <1>0, <1>9, QuietStep DEF VisitExpires, Visits, Watches, TypeOK
  <1>10. ASSUME NEW g \in GTTs, VisitPasses(g) PROVE IInv'
    BY <1>0, <1>10, QuietStep DEF VisitPasses, Visits
  <1>11. ASSUME NEW g \in GTTs, VisitRaises(g) PROVE IInv'
    BY <1>0, <1>11, QuietStep DEF VisitRaises, Examines, Visits
  <1>12. ASSUME NEW g \in GTTs, VisitTriggers(g) PROVE IInv'
    <2>1. /\ status[g] = "ACTIVE" /\ orders[g] = 0
          /\ monitor = "sweeping" /\ todo # <<>> /\ Head(todo) = g
          /\ firing = {}
      BY <1>12 DEF VisitTriggers, Examines, Visits, Watches, IInv, UntriggeredIsUntouched
    <2>2. Hits(g) \in SUBSET {i \in Indices : trigger[g][i] # Unknown} /\ Hits(g) # {}
      BY <1>12, NotNumbers DEF VisitTriggers, Hits
    <2>3. /\ firing' # {}
          /\ OneShot(g) => \E i \in Indices : firing' = {i}
      BY <1>12, <2>2, FiresType DEF VisitTriggers
    <2>4. /\ status' = [status EXCEPT ![g] = "TRIGGERED"]
          /\ fired' = [fired EXCEPT ![g] = Marks(g, First(Hits(g)))]
          /\ UNCHANGED <<type, trigger, orders, monitor, todo>>
      BY <1>12 DEF VisitTriggers
    <2>5. OneOrderEach'
      BY <2>4 DEF IInv, OneOrderEach
    <2>6. UntriggeredIsUntouched' /\ AbsentInv'
      BY <1>0, <2>4 DEF IInv, UntriggeredIsUntouched, AbsentInv, Absent, TypeOK
    <2>7. TriggeredIsBeingPlaced'
      BY <1>0, <2>1, <2>3, <2>4 DEF IInv, TriggeredIsBeingPlaced, TypeOK
    <2>8. FiringInv'
      BY <1>0, <2>1, <2>3, <2>4 DEF FiringInv, TypeOK
    <2>9. QED
      BY <1>0, <2>5, <2>6, <2>7, <2>8 DEF IInv
  <1>13. ASSUME NEW g \in GTTs, NEW o \in Outcomes, PlaceReturns(g, o) PROVE IInv'
    <2>1. /\ monitor = "sweeping" /\ firing # {} /\ todo # <<>> /\ Head(todo) = g
          /\ status[g] = "TRIGGERED"
      BY <1>13 DEF PlaceReturns, IInv, FiringInv
    <2>2. OneShot(g) => orders[g] = 0 /\ firing' = {}
      <3>1. ASSUME OneShot(g) PROVE orders[g] = 0 /\ firing' = {}
        <4>1. PICK i \in Indices : firing = {i}
          BY <2>1, <3>1 DEF IInv, FiringInv
        <4>2. First({i}) = i
          BY FirstOfOne, TwoConditions DEF Indices
        <4>3. firing' = firing \ {First(firing)}
          BY <1>13 DEF PlaceReturns
        <4>4. QED
          BY <2>1, <3>1, <4>1, <4>2, <4>3 DEF IInv, FiringInv
      <3>2. QED
        BY <3>1
    <2>3. /\ UNCHANGED <<type, trigger, monitor>>
          /\ orders' = IF KeepsOrder(o) THEN [orders EXCEPT ![g] = @ + 1] ELSE orders
          /\ \A h \in GTTs : h # g => status'[h] = status[h] /\ fired'[h] = fired[h]
      BY <1>0, <1>13 DEF PlaceReturns, TypeOK
    <2>4. /\ firing' = {} => status'[g] \in {"EXECUTED", "REJECTED"}
          /\ firing' # {} => status'[g] = "TRIGGERED" /\ todo' = todo
      BY <1>0, <1>13 DEF PlaceReturns, StatusAfter, TypeOK
    <2>5. OneOrderEach'
      BY <1>0, <2>2, <2>3 DEF IInv, OneOrderEach, TypeOK
    <2>6. UntriggeredIsUntouched' /\ AbsentInv'
      BY <1>0, <2>3, <2>4 DEF IInv, UntriggeredIsUntouched, AbsentInv, Absent, TypeOK
    <2>7. TriggeredIsBeingPlaced'
      BY <1>0, <2>1, <2>3, <2>4 DEF IInv, TriggeredIsBeingPlaced
    <2>8. FiringInv'
      BY <2>1, <2>2, <2>3, <2>4 DEF FiringInv
    <2>9. QED
      BY <1>0, <2>5, <2>6, <2>7, <2>8 DEF IInv
  <1>14. CASE Stop
    <2>1. /\ monitor' = "stopped" /\ firing' = {}
          /\ UNCHANGED <<status, type, trigger, fired>>
      BY <1>14 DEF Stop
    <2>2. CASE UNCHANGED orders
      BY <1>0, <2>1, <2>2
         DEF IInv, OneOrderEach, UntriggeredIsUntouched, TriggeredIsBeingPlaced,
             AbsentInv, FiringInv
    <2>3. CASE firing # {} /\ orders' = [orders EXCEPT ![Head(todo)] = @ + 1]
      <3>1. /\ Head(todo) \in GTTs
            /\ status[Head(todo)] = "TRIGGERED"
            /\ OneShot(Head(todo)) => orders[Head(todo)] = 0
        BY <1>0, <2>3 DEF IInv, FiringInv, TypeOK
      <3>2. OneOrderEach'
        BY <1>0, <2>1, <2>3, <3>1 DEF IInv, OneOrderEach, TypeOK
      <3>3. UntriggeredIsUntouched' /\ AbsentInv'
        BY <1>0, <2>1, <2>3, <3>1
           DEF IInv, UntriggeredIsUntouched, AbsentInv, Absent, TypeOK
      <3>4. TriggeredIsBeingPlaced' /\ FiringInv'
        BY <2>1 DEF TriggeredIsBeingPlaced, FiringInv
      <3>5. QED
        BY <1>0, <3>2, <3>3, <3>4 DEF IInv
    <2>4. QED
      BY <1>14, <2>2, <2>3 DEF Stop
  <1>15. CASE UNCHANGED vars
    BY <1>0, <1>15
       DEF vars, IInv, OneOrderEach, UntriggeredIsUntouched, TriggeredIsBeingPlaced,
           AbsentInv, FiringInv
  <1>16. QED
    BY <1>1, <1>2, <1>3, <1>4, <1>5, <1>6, <1>7, <1>8, <1>9, <1>10, <1>11, <1>12,
       <1>13, <1>14, <1>15
       DEF Next, Requests, Monitors

\* The inductive invariant holds in every reachable state.
THEOREM Invariance == Spec => []IInv
  BY InitInv, StepInv, PTL DEF Spec

\* An OCO order never leaves two orders at the broker, whatever the prices,
\* the triggers and the answers are.
THEOREM OneCancelsOther == Spec => []OneOrderPerOCO
  <1>1. IInv => OneOrderPerOCO
    BY DEF IInv, OneOrderEach, OneShot, OneOrderPerOCO
  <1>2. QED
    BY <1>1, Invariance, PTL

\* GTTs that did not trigger are untouched, and TRIGGERED ones are being placed.
THEOREM StatusesAreTrue == Spec => []StatusIsTrue
  <1>1. IInv => StatusIsTrue
    BY DEF IInv, UntriggeredIsUntouched, TriggeredIsBeingPlaced, StatusIsTrue
  <1>2. QED
    BY <1>1, Invariance, PTL

\* Every variable stays in its type.
THEOREM TypeCorrect == Spec => []TypeOK
  <1>1. IInv => TypeOK
    BY DEF IInv
  <1>2. QED
    BY <1>1, Invariance, PTL

\* The inner formula of DoneIsDone.
DoneStep ==
    \A g \in GTTs :
        status[g] \in {"EXECUTED", "REJECTED", "CANCELLED", "EXPIRED"} =>
            UNCHANGED <<status[g], fired[g], orders[g]>>

\* No step touches a GTT that is done.
LEMMA StepDone == IInv /\ [Next]_vars => DoneStep
  <1> SUFFICES ASSUME IInv, [Next]_vars PROVE DoneStep
    OBVIOUS
  <1> USE DEF DoneStep
  <1>0. TypeOK
    BY DEF IInv
  <1>1. ASSUME NEW g \in GTTs, NEW t \in GTTType, NEW d \in Sides, NEW s \in Symbols,
               NEW days \in Validities, NEW c \in ConditionLists(t),
               CreateGTT(g, t, d, s, c, days)
        PROVE  DoneStep
    BY <1>0, <1>1 DEF CreateGTT, Absent, TypeOK
  <1>2. ASSUME NEW g \in GTTs, CancelGTT(g) PROVE DoneStep
    BY <1>0, <1>2 DEF CancelGTT, Cancellable, TypeOK
  <1>3. ASSUME NEW g \in GTTs, NEW c \in ConditionLists(type[g]), ModifyConditions(g, c)
        PROVE  DoneStep
    BY <1>0, <1>3 DEF ModifyConditions, TypeOK
  <1>4. ASSUME NEW g \in GTTs, NEW days \in Validities, ModifyValidity(g, days)
        PROVE  DoneStep
    BY <1>4 DEF ModifyValidity
  <1>5. ASSUME NEW g \in GTTs, DeadlinePasses(g) PROVE DoneStep
    BY <1>5 DEF DeadlinePasses
  <1>6. ASSUME NEW s \in Symbols, NEW p \in Prices, UpdatePrice(s, p) PROVE DoneStep
    BY <1>6 DEF UpdatePrice
  <1>7. CASE SweepStarts \/ SweepEnds
    BY <1>7 DEF SweepStarts, SweepEnds
  <1>8. ASSUME NEW g \in GTTs, VisitExpires(g) PROVE DoneStep
    BY <1>0, <1>8 DEF VisitExpires, Watches, TypeOK
  <1>9. ASSUME NEW g \in GTTs, VisitPasses(g) \/ VisitRaises(g) PROVE DoneStep
    BY <1>9 DEF VisitPasses, VisitRaises
  <1>10. ASSUME NEW g \in GTTs, VisitTriggers(g) PROVE DoneStep
    BY <1>0, <1>10 DEF VisitTriggers, Examines, Watches, TypeOK
  <1>11. ASSUME NEW g \in GTTs, NEW o \in Outcomes, PlaceReturns(g, o) PROVE DoneStep
    <2>1. status[g] = "TRIGGERED"
      BY <1>11 DEF PlaceReturns, IInv, FiringInv
    <2>2. \A h \in GTTs : h # g => UNCHANGED <<status[h], fired[h], orders[h]>>
      BY <1>0, <1>11 DEF PlaceReturns, TypeOK
    <2>3. QED
      BY <2>1, <2>2
  <1>12. CASE Stop
    <2>1. UNCHANGED <<status, fired>>
      BY <1>12 DEF Stop
    <2>2. firing # {} => status[Head(todo)] = "TRIGGERED"
      BY DEF IInv, FiringInv
    <2>3. QED
      BY <1>0, <1>12, <2>1, <2>2 DEF Stop, TypeOK
  <1>13. CASE UNCHANGED vars
    BY <1>13 DEF vars
  <1>14. QED
    BY <1>1, <1>2, <1>3, <1>4, <1>5, <1>6, <1>7, <1>8, <1>9, <1>10, <1>11, <1>12, <1>13
       DEF Next, Requests, Monitors

\* No sweep, price or request reopens a GTT that is done.
THEOREM DoneStaysDone == Spec => DoneIsDone
  <1>1. IInv /\ [Next]_vars =>
          [\A g \in GTTs :
             status[g] \in {"EXECUTED", "REJECTED", "CANCELLED", "EXPIRED"} =>
                 UNCHANGED <<status[g], fired[g], orders[g]>>]_vars
    BY StepDone DEF DoneStep
  <1>2. QED
    BY <1>1, Invariance, PTL DEF Spec, DoneIsDone

-----------------------------------------------------------------------------
(* The promise of OrderApproval.                                           *)

\* Requests change what a GTT asks for only before it has an order.
LEMMA PlacedStays ==
    ASSUME IInv, orders' = orders,
           \A g \in GTTs : \/ type'[g] = type[g] /\ trigger'[g] = trigger[g]
                          \/ status[g] \in {Absent, "ACTIVE"}
    PROVE  Placed' = Placed
  <1>1. \A g \in GTTs : status[g] \in {Absent, "ACTIVE"} => orders[g] = 0
    BY DEF IInv, UntriggeredIsUntouched, AbsentInv
  <1>2. ASSUME NEW g \in GTTs
        PROVE  (IF OneShot(g) THEN orders[g] ELSE 0)' = IF OneShot(g) THEN orders[g] ELSE 0
    <2>1. CASE type'[g] = type[g] /\ trigger'[g] = trigger[g]
      BY <2>1 DEF OneShot
    <2>2. CASE status[g] \in {Absent, "ACTIVE"}
      BY <1>1, <2>2
    <2>3. QED
      BY <2>1, <2>2
  <1>3. QED
    BY <1>2 DEF Placed

\* A step that changes the status of one GTT decides no other.
LEMMA DecisionChange ==
    ASSUME TypeOK, NEW b \in GTTs, NEW STATE s, status' = [status EXCEPT ![b] = s],
           monitor' = "stopped" <=> monitor = "stopped",
           NEW d, Decision'[b] = d
    PROVE  Decision' = [Decision EXCEPT ![b] = d]
  <1>1. \A g \in GTTs : g # b => Decision'[g] = Decision[g]
    BY DEF Decision, TypeOK
  <1>2. /\ Decision = [g \in GTTs |-> Decision[g]]
        /\ Decision' = [g \in GTTs |-> Decision'[g]]
    BY DEF Decision
  <1>3. QED
    BY <1>1, <1>2

\* A step that at most refuses GTTs that wait is a Refuse or a stutter.
LEMMA RefuseStep ==
    ASSUME IInv, orders' = orders,
           monitor' = "stopped" <=> monitor = "stopped",
           \A g \in GTTs : \/ type'[g] = type[g] /\ trigger'[g] = trigger[g]
                          \/ status[g] \in {Absent, "ACTIVE"},
           \A g \in GTTs : \/ status'[g] = status[g]
                          \/ /\ status[g] = "ACTIVE"
                             /\ status'[g] \in {"CANCELLED", "EXPIRED"}
    PROVE  [Approval!Next]_(Approval!vars)
  <1> DEFINE S == {g \in GTTs : status'[g] # status[g]}
  <1>1. Placed' = Placed
    BY PlacedStays
  <1>2. \A g \in S : Decision[g] = "open"
    BY DEF Decision, Absent
  <1>3. Decision' = [g \in GTTs |-> IF g \in S THEN "refused" ELSE Decision[g]]
    <2>1. \A g \in GTTs : Decision'[g] = IF g \in S THEN "refused" ELSE Decision[g]
      BY DEF Decision, Absent
    <2>2. QED
      BY <2>1 DEF Decision
  <1>4. CASE S = {}
    <2>1. Decision' = Decision
      BY <1>3, <1>4 DEF Decision
    <2>2. QED
      BY <1>1, <2>1 DEF Approval!vars
  <1>5. CASE S # {}
    <2>1. Approval!Refuse(S)
      BY <1>1, <1>2, <1>3 DEF Approval!Refuse
    <2>2. QED
      BY <1>5, <2>1 DEF Approval!Next
  <1>6. QED
    BY <1>4, <1>5

\* An order that is answered, or under way when the monitor stops, settles its GTT.
LEMMA SettleStep ==
    ASSUME IInv, NEW g \in GTTs, status[g] = "TRIGGERED", monitor = "sweeping",
           firing # {}, Head(todo) = g,
           UNCHANGED <<type, trigger>>,
           orders' = orders \/ orders' = [orders EXCEPT ![g] = @ + 1],
           \A h \in GTTs \ {g} : status'[h] = status[h],
           \/ status'[g] \in {"EXECUTED", "REJECTED"} /\ monitor' = monitor
           \/ status'[g] = "TRIGGERED" /\ monitor' = "stopped"
    PROVE  [Approval!Next]_(Approval!vars)
  <1>0. TypeOK
    BY DEF IInv
  <1>1. \A h \in GTTs \ {g} : status[h] # "TRIGGERED"
    BY DEF IInv, TriggeredIsBeingPlaced
  <1>2. Decision[g] = "granted" /\ Decision'[g] = "settled"
    BY DEF Decision, Absent
  <1>3. \A h \in GTTs \ {g} : Decision'[h] = Decision[h]
    BY <1>1 DEF Decision
  <1>4. Decision' = [Decision EXCEPT ![g] = "settled"]
    <2>1. /\ Decision = [h \in GTTs |-> Decision[h]]
          /\ Decision' = [h \in GTTs |-> Decision'[h]]
      BY DEF Decision
    <2>2. QED
      BY <1>2, <1>3, <2>1
  <1>5. \/ Placed' = [Placed EXCEPT ![g] = @ + 1]
        \/ Placed' = Placed
    <2>1. \A h \in GTTs : OneShot(h)' <=> OneShot(h)
      BY DEF OneShot
    <2>2. CASE orders' = orders
      BY <2>1, <2>2 DEF Placed
    <2>3. CASE orders' = [orders EXCEPT ![g] = @ + 1]
      BY <1>0, <2>1, <2>3 DEF Placed, TypeOK
    <2>4. QED
      BY <2>2, <2>3
  <1>6. Approval!Settle(g)
    BY <1>2, <1>4, <1>5 DEF Approval!Settle
  <1>7. QED
    BY <1>6 DEF Approval!Next

\* Every step is a step of OrderApproval or leaves its variables unchanged.
LEMMA StepRefines == IInv /\ [Next]_vars => [Approval!Next]_(Approval!vars)
  <1> SUFFICES ASSUME IInv, [Next]_vars PROVE [Approval!Next]_(Approval!vars)
    OBVIOUS
  <1>0. TypeOK
    BY DEF IInv
  <1> USE DEF request
  <1>1. ASSUME NEW g \in GTTs, NEW t \in GTTType, NEW d \in Sides, NEW s \in Symbols,
               NEW days \in Validities, NEW c \in ConditionLists(t),
               CreateGTT(g, t, d, s, c, days)
        PROVE  [Approval!Next]_(Approval!vars)
    <2>1. /\ status[g] = Absent
          /\ status' = [status EXCEPT ![g] = "ACTIVE"]
          /\ type' = [type EXCEPT ![g] = t] /\ trigger' = [trigger EXCEPT ![g] = c]
          /\ UNCHANGED <<orders, monitor>>
      BY <1>1 DEF CreateGTT
    <2>2. Decision[g] = "none" /\ Decision'[g] = "open"
      BY <1>0, <2>1 DEF Decision, Absent, TypeOK
    <2>3. Decision' = [Decision EXCEPT ![g] = "open"]
      BY <1>0, <2>1, <2>2, DecisionChange
    <2>4. Placed' = Placed
      BY <1>0, <2>1, PlacedStays DEF TypeOK
    <2>5. Approval!Open(g)
      BY <2>2, <2>3, <2>4 DEF Approval!Open
    <2>6. QED
      BY <2>5 DEF Approval!Next
  <1>2. ASSUME NEW g \in GTTs, CancelGTT(g) PROVE [Approval!Next]_(Approval!vars)
    BY <1>0, <1>2, RefuseStep DEF CancelGTT, Cancellable, TypeOK
  <1>3. ASSUME NEW g \in GTTs, NEW c \in ConditionLists(type[g]), ModifyConditions(g, c)
        PROVE  [Approval!Next]_(Approval!vars)
    <2>1. \A h \in GTTs : trigger'[h] = trigger[h] \/ status[h] = "ACTIVE"
      BY <1>0, <1>3 DEF ModifyConditions, TypeOK
    <2>2. QED
      BY <1>3, <2>1, RefuseStep DEF ModifyConditions
  <1>4. ASSUME NEW g \in GTTs, NEW days \in Validities, ModifyValidity(g, days)
        PROVE  [Approval!Next]_(Approval!vars)
    BY <1>4, RefuseStep DEF ModifyValidity
  <1>5. ASSUME NEW g \in GTTs, DeadlinePasses(g) PROVE [Approval!Next]_(Approval!vars)
    BY <1>5, RefuseStep DEF DeadlinePasses
  <1>6. ASSUME NEW s \in Symbols, NEW p \in Prices, UpdatePrice(s, p)
        PROVE  [Approval!Next]_(Approval!vars)
    BY <1>6, RefuseStep DEF UpdatePrice
  <1>7. CASE SweepStarts \/ SweepEnds
    BY <1>7, RefuseStep DEF SweepStarts, SweepEnds
  <1>8. ASSUME NEW g \in GTTs, VisitExpires(g) PROVE [Approval!Next]_(Approval!vars)
    BY <1>0, <1>8, RefuseStep DEF VisitExpires, Watches, TypeOK
  <1>9. ASSUME NEW g \in GTTs, VisitPasses(g) \/ VisitRaises(g)
        PROVE  [Approval!Next]_(Approval!vars)
    BY <1>9, RefuseStep DEF VisitPasses, VisitRaises, Examines, Visits
  <1>10. ASSUME NEW g \in GTTs, VisitTriggers(g) PROVE [Approval!Next]_(Approval!vars)
    <2>1. /\ status[g] = "ACTIVE" /\ monitor = "sweeping"
          /\ status' = [status EXCEPT ![g] = "TRIGGERED"]
          /\ UNCHANGED <<type, trigger, orders, monitor>>
      BY <1>10 DEF VisitTriggers, Examines, Visits, Watches
    <2>2. Decision[g] = "open" /\ Decision'[g] = "granted"
      BY <1>0, <2>1 DEF Decision, Absent, TypeOK
    <2>3. Decision' = [Decision EXCEPT ![g] = "granted"]
      BY <1>0, <2>1, <2>2, DecisionChange
    <2>4. Placed' = Placed
      BY <2>1, PlacedStays
    <2>5. Approval!Grant(g)
      BY <2>2, <2>3, <2>4 DEF Approval!Grant
    <2>6. QED
      BY <2>5 DEF Approval!Next
  <1>11. ASSUME NEW g \in GTTs, NEW o \in Outcomes, PlaceReturns(g, o)
         PROVE  [Approval!Next]_(Approval!vars)
    <2>1. /\ monitor = "sweeping" /\ firing # {} /\ Head(todo) = g
          /\ status[g] = "TRIGGERED"
          /\ UNCHANGED <<type, trigger, monitor>>
          /\ orders' = orders \/ orders' = [orders EXCEPT ![g] = @ + 1]
      BY <1>11 DEF PlaceReturns, IInv, FiringInv
    <2>2. CASE firing' = {}
      <3>1. status' = [status EXCEPT ![g] = StatusAfter(o)]
        BY <1>11, <2>2 DEF PlaceReturns
      <3>2. /\ status'[g] \in {"EXECUTED", "REJECTED"}
            /\ \A h \in GTTs \ {g} : status'[h] = status[h]
        BY <1>0, <3>1 DEF StatusAfter, TypeOK
      <3>3. QED
        BY <2>1, <3>2, SettleStep
    <2>3. CASE firing' # {}
      <3>1. status' = [status EXCEPT ![g] = "TRIGGERED"]
        BY <1>11, <2>3 DEF PlaceReturns
      <3>2. ~OneShot(g)
        <4>1. ASSUME OneShot(g) PROVE firing' = {}
          <5>1. PICK i \in Indices : firing = {i}
            BY <2>1, <4>1 DEF IInv, FiringInv
          <5>2. First({i}) = i
            BY FirstOfOne, TwoConditions DEF Indices
          <5>3. firing' = firing \ {First(firing)}
            BY <1>11 DEF PlaceReturns
          <5>4. QED
            BY <5>1, <5>2, <5>3
        <4>2. QED
          BY <2>3, <4>1
      <3>3. \A h \in GTTs : OneShot(h)' <=> OneShot(h)
        BY <2>1 DEF OneShot
      <3>4. Placed' = Placed
        BY <1>0, <2>1, <3>2, <3>3 DEF Placed, TypeOK
      <3>5. Decision' = Decision
        BY <1>0, <2>1, <3>1 DEF Decision, TypeOK
      <3>6. QED
        BY <3>4, <3>5 DEF Approval!vars
    <2>4. QED
      BY <2>2, <2>3
  <1>12. CASE Stop
    <2>1. /\ monitor # "stopped" /\ monitor' = "stopped"
          /\ UNCHANGED <<status, type, trigger>>
          /\ \/ orders' = orders
             \/ firing # {} /\ orders' = [orders EXCEPT ![Head(todo)] = @ + 1]
      BY <1>12 DEF Stop
    <2>2. CASE firing = {}
      <3>1. \A g \in GTTs : status[g] # "TRIGGERED"
        BY <2>1, <2>2 DEF IInv, TriggeredIsBeingPlaced
      <3>2. Decision' = Decision
        BY <2>1, <3>1 DEF Decision
      <3>3. Placed' = Placed
        BY <2>1, <2>2, PlacedStays
      <3>4. QED
        BY <3>2, <3>3 DEF Approval!vars
    <2>3. CASE firing # {}
      <3>1. /\ monitor = "sweeping" /\ Head(todo) \in GTTs
            /\ status[Head(todo)] = "TRIGGERED"
        BY <1>0, <2>1, <2>3 DEF IInv, FiringInv, TypeOK
      <3>2. QED
        BY <2>1, <2>3, <3>1, SettleStep
    <2>4. QED
      BY <2>2, <2>3
  <1>13. CASE UNCHANGED vars
    BY <1>13, RefuseStep DEF vars
  <1>14. QED
    BY <1>1, <1>2, <1>3, <1>4, <1>5, <1>6, <1>7, <1>8, <1>9, <1>10, <1>11, <1>12, <1>13
       DEF Next, Requests, Monitors

\* The GTT service implements OrderApproval, with the market as the one who
\* approves: every GTT is decided once, a trigger leads to one attempt, and one that
\* may place a single order places no second (gtt_orders.py).
THEOREM RefinesApproval == Spec => ImplementsApproval
  <1>1. Init => Approval!Init
    BY DEF Init, Approval!Init, Decision, Placed, Absent
  <1>2. QED
    BY <1>1, StepRefines, Invariance, PTL DEF Spec, ImplementsApproval, Approval!Safety
=============================================================================
