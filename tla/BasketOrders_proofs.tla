------------------------- MODULE BasketOrders_proofs ------------------------
(***************************************************************************)
(* For any number of baskets and legs, and both kinds of adapter: no leg   *)
(* is placed twice, a sequential atomic basket stops at its first failure, *)
(* and the verdict on a basket says what its legs say, although executor   *)
(* and canceller interleave freely.                                        *)
(***************************************************************************)
EXTENDS BasketOrders, TLAPS

\* An execution that has not begun has left no trace.
FreshInv(b) == exec[b] = "none" =>
    /\ flying[b] = {}
    /\ \A i \in Legs : sent[b][i] = 0 /\ leg[b][i] = "pending"

\* The status and the executor agree on what has not begun and what is over.
StatusInv(b) == /\ status[b] \in {Absent, "PENDING"} => exec[b] = "none"
                /\ status[b] \in {"COMPLETED", "PARTIAL"} => exec[b] = "done"

\* Nothing is under way once the legs were placed.
LandedInv(b) == exec[b] \in {"rolling", "done"} => flying[b] = {}

\* The sequential loop has placed at most the legs up to pos, and either one
\* has failed or all behind it were accepted.
SequentialInv(b) == exec[b] = "placing" /\ ~parallel[b] =>
    /\ flying[b] \subseteq {pos[b]}
    /\ \A i \in Legs : i >= pos[b] =>
          /\ leg[b][i] = "pending"
          /\ i \notin flying[b] => sent[b][i] = 0
    /\ Failed(b) \/ \A i \in Legs : i < pos[b] =>
                                     leg[b][i] \in {"completed", "cancelled"}

\* All legs of a parallel basket were sent, and those that answered have an
\* outcome.
ParallelInv(b) == exec[b] = "placing" /\ parallel[b] =>
    /\ pos[b] = NumLegs + 1
    /\ \A i \in Legs : i \notin flying[b] =>
          leg[b][i] \in {"completed", "failed", "cancelled"}

\* What holds of each basket: the above, and the properties themselves.
Sound(b) ==
    /\ FreshInv(b) /\ StatusInv(b) /\ LandedInv(b)
    /\ SequentialInv(b) /\ ParallelInv(b)
    /\ \A i \in Legs : sent[b][i] <= 1
    /\ atomic[b] /\ ~parallel[b] =>
          \A i, j \in Legs : i < j /\ leg[b][i] = "failed" => sent[b][j] = 0
    /\ status[b] = "COMPLETED" =>
          \A i \in Legs : leg[b][i] \in {"completed", "cancelled"}
    /\ status[b] = "PARTIAL" => ~atomic[b] /\ Failed(b)

IInv == TypeOK /\ \A b \in Baskets : Sound(b)

LEMMA InitIInv == Init => IInv
  <1> SUFFICES ASSUME Init PROVE IInv
    OBVIOUS
  <1> USE BasketAssumptions
  <1>1. TypeOK
    BY DEF Init, TypeOK, Legs, Positions, LegStatus
  <1>2. ASSUME NEW b \in Baskets PROVE Sound(b)
    BY DEF Init, Sound, FreshInv, StatusInv, LandedInv, SequentialInv,
           ParallelInv, Absent
  <1>3. QED BY <1>1, <1>2 DEF IInv

\* A basket whose variables do not change stays sound.
LEMMA OthersStaySound ==
    ASSUME NEW b \in Baskets, Sound(b),
           status'[b] = status[b], parallel'[b] = parallel[b],
           atomic'[b] = atomic[b], leg'[b] = leg[b], sent'[b] = sent[b],
           flying'[b] = flying[b], exec'[b] = exec[b], pos'[b] = pos[b]
    PROVE  Sound(b)'
  BY DEF Sound, FreshInv, StatusInv, LandedInv, SequentialInv, ParallelInv, Failed

\* A turn of a loop that cancels keeps everything but some completed legs.
LEMMA CancelTurnEffect ==
    ASSUME TypeOK, NEW b \in Baskets, NEW i \in Legs, NEW ok, CancelTurn(b, i, ok)
    PROVE  /\ leg' \in [Baskets -> [Legs -> LegStatus]]
           /\ live' \in [Baskets -> SUBSET Legs]
           /\ \A c \in Baskets : c # b => leg'[c] = leg[c]
           /\ \A j \in Legs : \/ leg'[b][j] = leg[b][j]
                              \/ leg[b][j] = "completed" /\ leg'[b][j] = "cancelled"
  <1>1. CASE Cancels(b, i)
    <2>1. leg' = [leg EXCEPT ![b][i] = "cancelled"]
      BY <1>1 DEF CancelTurn
    <2>2. live' \in [Baskets -> SUBSET Legs]
      BY <1>1 DEF CancelTurn, TypeOK
    <2>3. leg[b][i] = "completed"
      BY <1>1 DEF Cancels
    <2>4. QED BY <2>1, <2>2, <2>3 DEF TypeOK, LegStatus
  <1>2. CASE ~Cancels(b, i)
    BY <1>2 DEF CancelTurn, TypeOK
  <1>3. QED BY <1>1, <1>2

\* ... and so keeps the basket sound, unless its executor moves too.
LEMMA CancelTurnIsSound ==
    ASSUME NEW b \in Baskets, Sound(b),
           \A j \in Legs : \/ leg'[b][j] = leg[b][j]
                           \/ leg[b][j] = "completed" /\ leg'[b][j] = "cancelled",
           status'[b] = status[b], parallel'[b] = parallel[b],
           atomic'[b] = atomic[b], sent'[b] = sent[b],
           flying'[b] = flying[b], exec'[b] = exec[b],
           pos'[b] = pos[b] \/ exec[b] = "rolling"
    PROVE  Sound(b)'
  <1>1. (FreshInv(b) /\ StatusInv(b) /\ LandedInv(b))'
    BY DEF Sound, FreshInv, StatusInv, LandedInv
  <1>2. Failed(b)' <=> Failed(b)
    BY DEF Failed
  <1>3. SequentialInv(b)'
    BY <1>2 DEF Sound, SequentialInv
  <1>4. ParallelInv(b)'
    BY DEF Sound, ParallelInv
  <1>5. QED
    BY <1>1, <1>2, <1>3, <1>4 DEF Sound

LEMMA StepIInv == IInv /\ [Next]_vars => IInv'
  <1> SUFFICES ASSUME TypeOK, \A b \in Baskets : Sound(b), [Next]_vars
               PROVE  TypeOK' /\ \A b \in Baskets : Sound(b)'
    BY DEF IInv
  <1> USE BasketAssumptions
  <1>1. ASSUME NEW b \in Baskets, NEW par \in BOOLEAN, NEW ato \in BOOLEAN,
               CreateBasket(b, par, ato)
        PROVE  TypeOK' /\ \A c \in Baskets : Sound(c)'
    <2> USE <1>1 DEF CreateBasket
    <2>1. TypeOK' BY DEF TypeOK, BasketStatus
    <2>2. exec[b] = "none" BY DEF Sound, StatusInv
    <2>3. Sound(b)'
      BY <2>2 DEF Sound, FreshInv, StatusInv, LandedInv, SequentialInv,
                  ParallelInv, TypeOK, Absent
    <2>4. ASSUME NEW c \in Baskets, c # b PROVE Sound(c)'
      BY <2>4, OthersStaySound DEF TypeOK
    <2>5. QED BY <2>1, <2>3, <2>4
  <1>2. ASSUME NEW b \in Baskets, ExecuteBasket(b)
        PROVE  TypeOK' /\ \A c \in Baskets : Sound(c)'
    <2> USE <1>2 DEF ExecuteBasket, Startable, Send
    <2>1. TypeOK'
      <3>1. 1 \in Positions /\ NumLegs + 1 \in Positions
        BY DEF Positions
      <3>2. CASE parallel[b]
        <4>1. /\ sent' = [sent EXCEPT ![b] =
                            [i \in Legs |-> sent[b][i] + (IF i \in Legs THEN 1 ELSE 0)]]
              /\ flying' = [flying EXCEPT ![b] = flying[b] \union Legs]
              /\ pos' = [pos EXCEPT ![b] = NumLegs + 1]
          BY <3>2
        <4>2. /\ sent \in [Baskets -> [Legs -> Nat]]
              /\ flying \in [Baskets -> SUBSET Legs]
          BY DEF TypeOK
        <4>3. [i \in Legs |-> sent[b][i] + (IF i \in Legs THEN 1 ELSE 0)]
                 \in [Legs -> Nat]
          BY <4>2
        <4>4. sent' \in [Baskets -> [Legs -> Nat]]
          BY ONLY <4>1, <4>2, <4>3, b \in Baskets
        <4>5. flying' \in [Baskets -> SUBSET Legs]
          BY ONLY <4>1, <4>2, b \in Baskets
        <4>6. QED BY <3>1, <4>1, <4>4, <4>5 DEF TypeOK, BasketStatus
      <3>3. CASE ~parallel[b]
        BY <3>1, <3>3 DEF TypeOK, BasketStatus
      <3>4. QED BY <3>2, <3>3
    <2>2. /\ exec[b] = "none" /\ flying[b] = {}
          /\ \A i \in Legs : sent[b][i] = 0 /\ leg[b][i] = "pending"
      BY DEF Sound, StatusInv, FreshInv
    <2>3. Sound(b)'
      <3>1. CASE parallel[b]
        <4>1. /\ exec'[b] = "placing" /\ status'[b] = "IN_PROGRESS"
              /\ parallel'[b] /\ pos'[b] = NumLegs + 1
              /\ flying'[b] = Legs
              /\ \A i \in Legs : sent'[b][i] = 1
              /\ leg' = leg
          BY <3>1, <2>2 DEF TypeOK
        <4>2. QED
          BY <4>1, <2>2 DEF Sound, FreshInv, StatusInv, LandedInv,
                            SequentialInv, ParallelInv, Absent
      <3>2. CASE ~parallel[b]
        <4>1. /\ exec'[b] = "placing" /\ status'[b] = "IN_PROGRESS"
              /\ ~parallel'[b] /\ pos'[b] = 1
              /\ flying'[b] = {} /\ sent' = sent /\ leg' = leg
          BY <3>2, <2>2 DEF TypeOK
        <4>2. QED
          BY <4>1, <2>2 DEF Sound, FreshInv, StatusInv, LandedInv,
                            SequentialInv, ParallelInv, Absent, Legs
      <3>3. QED BY <3>1, <3>2
    <2>4. ASSUME NEW c \in Baskets, c # b PROVE Sound(c)'
      BY <2>4, OthersStaySound DEF TypeOK
    <2>5. QED BY <2>1, <2>3, <2>4
  <1>3. ASSUME NEW b \in Baskets, CancelBasket(b)
        PROVE  TypeOK' /\ \A c \in Baskets : Sound(c)'
    <2> USE <1>3 DEF CancelBasket, basket
    <2>1. TypeOK' BY DEF TypeOK, Positions
    <2>2. QED BY <2>1, OthersStaySound
  <1>4. ASSUME NEW b \in Baskets, Executes(b)
        PROVE  TypeOK' /\ \A c \in Baskets : Sound(c)'
    <2>1. CASE SkipLeg(b)
      <3> USE <2>1 DEF SkipLeg, AtLeg, Skips
      <3>1. pos[b] \in Legs /\ flying[b] = {} /\ exec[b] = "placing"
        BY DEF TypeOK, Legs, Positions
      <3>2. TypeOK'
        <4>1. pos[b] + 1 \in Positions
          BY <3>1 DEF Legs, Positions
        <4>2. leg' \in [Baskets -> [Legs -> LegStatus]]
          BY <3>1 DEF TypeOK, LegStatus
        <4>3. QED BY <4>1, <4>2 DEF TypeOK
      <3>3. /\ ~parallel[b] /\ Failed(b)
            /\ \A i \in Legs : i >= pos[b] => leg[b][i] = "pending" /\ sent[b][i] = 0
        BY <3>1 DEF Sound, SequentialInv, ParallelInv, Failed, Legs
      <3>4. /\ \A i \in Legs : i # pos[b] => leg'[b][i] = leg[b][i]
            /\ leg'[b][pos[b]] = "skipped"
            /\ pos'[b] = pos[b] + 1
        BY <3>1 DEF TypeOK
      <3>5. Failed(b)' /\ \A i \in Legs : leg'[b][i] = "failed" => leg[b][i] = "failed"
        <4>1. PICK k \in Legs : leg[b][k] = "failed"
          BY <3>3 DEF Failed
        <4>2. leg[b][pos[b]] = "pending"
          BY <3>1, <3>3 DEF Legs
        <4>3. leg'[b][k] = "failed"
          BY <3>4, <4>1, <4>2
        <4>4. QED BY <3>1, <3>4, <4>3 DEF Failed
      <3>6. SequentialInv(b)'
        <4>1. \A i \in Legs : i >= pos'[b] =>
                 leg'[b][i] = "pending" /\ sent'[b][i] = 0
          BY <3>1, <3>3, <3>4 DEF Legs
        <4>2. flying'[b] = {}
          BY <3>1
        <4>3. QED BY <3>5, <4>1, <4>2 DEF SequentialInv
      <3>7. Sound(b)'
        BY <3>1, <3>3, <3>5, <3>6
        DEF Sound, FreshInv, StatusInv, LandedInv, ParallelInv
      <3>8. ASSUME NEW c \in Baskets, c # b PROVE Sound(c)'
        BY <3>8, OthersStaySound DEF TypeOK
      <3>9. QED BY <3>2, <3>7, <3>8
    <2>2. CASE PlaceLeg(b)
      <3> USE <2>2 DEF PlaceLeg, AtLeg, Send
      <3>1. pos[b] \in Legs /\ flying[b] = {} /\ exec[b] = "placing"
        BY DEF TypeOK, Legs, Positions
      <3>2. TypeOK' BY <3>1 DEF TypeOK
      <3>3. /\ ~parallel[b]
            /\ \A i \in Legs : i >= pos[b] => leg[b][i] = "pending" /\ sent[b][i] = 0
        BY <3>1 DEF Sound, SequentialInv, ParallelInv, Legs
      <3>4. /\ flying'[b] = {pos[b]}
            /\ \A i \in Legs : sent'[b][i] = IF i = pos[b] THEN 1 ELSE sent[b][i]
        <4>1. flying'[b] = {pos[b]}
          BY <3>1 DEF TypeOK
        <4>2. sent'[b] = [i \in Legs |-> sent[b][i] + IF i \in {pos[b]} THEN 1 ELSE 0]
          BY DEF TypeOK
        <4>3. \A i \in Legs : sent[b][i] \in Nat
          BY DEF TypeOK
        <4>4. sent[b][pos[b]] = 0
          BY <3>1, <3>3 DEF Legs
        <4>5. QED BY <4>1, <4>2, <4>3, <4>4
      <3>5. SequentialInv(b)'
        BY <3>1, <3>3, <3>4 DEF Sound, SequentialInv, Failed
      <3>6. atomic[b] => \A i \in Legs : i < pos[b] => leg[b][i] # "failed"
        BY DEF Skips
      <3>7. Sound(b)'
        BY <3>1, <3>3, <3>4, <3>5, <3>6
        DEF Sound, FreshInv, StatusInv, LandedInv, ParallelInv, Failed
      <3>8. ASSUME NEW c \in Baskets, c # b PROVE Sound(c)'
        BY <3>8, OthersStaySound DEF TypeOK
      <3>9. QED BY <3>2, <3>7, <3>8
    <2>3. ASSUME NEW i \in Legs, NEW o \in Outcomes, LegReturns(b, i, o)
          PROVE  TypeOK' /\ \A c \in Baskets : Sound(c)'
      <3> USE <2>3 DEF LegReturns
      <3>1. exec[b] = "placing" /\ i \in flying[b]
        BY DEF Sound, FreshInv, LandedInv, TypeOK
      <3>2. LegAfter(o) \in {"completed", "failed"}
        BY DEF LegAfter
      <3>3. CASE parallel[b]
        <4>1. TypeOK' BY <3>2, <3>3 DEF TypeOK, LegStatus
        <4>2. /\ \A j \in Legs : leg'[b][j] = IF j = i THEN LegAfter(o) ELSE leg[b][j]
              /\ flying'[b] = flying[b] \ {i}
          BY DEF TypeOK
        <4>3. Sound(b)'
          BY <3>1, <3>2, <3>3, <4>2
          DEF Sound, FreshInv, StatusInv, LandedInv, SequentialInv, ParallelInv,
              Absent
        <4>4. ASSUME NEW c \in Baskets, c # b PROVE Sound(c)'
          BY <3>3, <4>4, OthersStaySound DEF TypeOK
        <4>5. QED BY <4>1, <4>3, <4>4
      <3>4. CASE ~parallel[b]
        <4>1. i = pos[b] /\ flying[b] = {i}
          BY <3>1, <3>4 DEF Sound, SequentialInv
        <4>2. After(b, o) \in Positions /\ After(b, o) > i
          BY <4>1 DEF After, Legs, Positions
        <4>3. TypeOK' BY <3>2, <3>4, <4>2 DEF TypeOK, LegStatus
        <4>4. /\ \A j \in Legs : leg'[b][j] = IF j = i THEN LegAfter(o) ELSE leg[b][j]
              /\ flying'[b] = {}
              /\ pos'[b] = After(b, o)
          BY <3>4, <4>1 DEF TypeOK
        <4>5. \A j \in Legs : j > i => leg[b][j] = "pending" /\ sent[b][j] = 0
          BY <3>1, <3>4, <4>1 DEF Sound, SequentialInv, Legs
        <4>6. Failed(b)' <=> Failed(b) \/ LegAfter(o) = "failed"
          <5>1. leg[b][i] = "pending"
            BY <3>1, <3>4, <4>1 DEF Sound, SequentialInv, Legs
          <5>2. QED BY <4>4, <5>1 DEF Failed
        <4>7. LegAfter(o) = "completed" => After(b, o) = i + 1
          BY <4>1 DEF LegAfter, After
        <4>8. SequentialInv(b)'
          <5>1. \A j \in Legs : j >= After(b, o) =>
                   leg'[b][j] = "pending" /\ sent'[b][j] = 0
            BY <4>2, <4>4, <4>5 DEF Legs, Positions
          <5>2. Failed(b)' \/ \A j \in Legs : j < After(b, o) =>
                   leg'[b][j] \in {"completed", "cancelled"}
            BY <3>1, <3>2, <3>4, <4>1, <4>4, <4>6, <4>7
            DEF Sound, SequentialInv, Legs
          <5>3. QED BY <4>4, <5>1, <5>2 DEF SequentialInv
        <4>9. Sound(b)'
          BY <3>1, <3>4, <4>4, <4>5, <4>8
          DEF Sound, FreshInv, StatusInv, LandedInv, ParallelInv, Absent, Legs
        <4>10. ASSUME NEW c \in Baskets, c # b PROVE Sound(c)'
          BY <3>4, <4>10, OthersStaySound DEF TypeOK
        <4>11. QED BY <4>3, <4>9, <4>10
      <3>5. QED BY <3>3, <3>4
    <2>4. CASE FinishBasket(b)
      <3> USE <2>4 DEF FinishBasket, Placed, Verdict
      <3>1. TypeOK' BY DEF TypeOK, BasketStatus
      <3>2. ~Failed(b) => \A i \in Legs : leg[b][i] \in {"completed", "cancelled"}
        <4>1. \A i \in Legs : i < NumLegs + 1 /\ i \notin flying[b]
          BY DEF Legs
        <4>2. CASE parallel[b]
          BY <4>1, <4>2 DEF Sound, ParallelInv, Failed
        <4>3. CASE ~parallel[b]
          BY <4>1, <4>3 DEF Sound, SequentialInv
        <4>4. QED BY <4>2, <4>3
      <3>3. status'[b] = Verdict(b) /\ exec'[b] = "done"
        BY DEF TypeOK
      <3>4. Sound(b)'
        BY <3>2, <3>3
        DEF Sound, FreshInv, StatusInv, LandedInv, SequentialInv, ParallelInv,
            Failed, Absent
      <3>5. ASSUME NEW c \in Baskets, c # b PROVE Sound(c)'
        BY <3>5, OthersStaySound DEF TypeOK
      <3>6. QED BY <3>1, <3>4, <3>5
    <2>5. CASE StartRollback(b)
      <3> USE <2>5 DEF StartRollback, Placed, basket
      <3>1. TypeOK' BY DEF TypeOK, Positions
      <3>2. exec'[b] = "rolling" /\ flying[b] = {} /\ exec[b] = "placing"
        BY DEF TypeOK
      <3>3. Sound(b)'
        BY <3>2
        DEF Sound, FreshInv, StatusInv, LandedInv, SequentialInv, ParallelInv,
            Failed, Absent
      <3>4. ASSUME NEW c \in Baskets, c # b PROVE Sound(c)'
        BY <3>4, OthersStaySound DEF TypeOK
      <3>5. QED BY <3>1, <3>3, <3>4
    <2>6. ASSUME NEW ok \in BOOLEAN, RollbackLeg(b, ok)
          PROVE  TypeOK' /\ \A c \in Baskets : Sound(c)'
      <3> USE <2>6 DEF RollbackLeg
      <3>1. pos[b] \in Legs
        BY DEF TypeOK, Legs, Positions
      <3>2. /\ leg' \in [Baskets -> [Legs -> LegStatus]]
            /\ live' \in [Baskets -> SUBSET Legs]
            /\ \A c \in Baskets : c # b => leg'[c] = leg[c]
            /\ \A j \in Legs :
                  \/ leg'[b][j] = leg[b][j]
                  \/ leg[b][j] = "completed" /\ leg'[b][j] = "cancelled"
        BY <3>1, CancelTurnEffect
      <3>3. TypeOK'
        <4>1. pos[b] + 1 \in Positions
          BY <3>1 DEF Legs, Positions
        <4>2. QED BY <3>2, <4>1 DEF TypeOK
      <3>4. Sound(b)'
        BY <3>2, CancelTurnIsSound
      <3>5. ASSUME NEW c \in Baskets, c # b PROVE Sound(c)'
        BY <3>2, <3>5, OthersStaySound DEF TypeOK
      <3>6. QED BY <3>3, <3>4, <3>5
    <2>7. CASE FinishRollback(b)
      <3> USE <2>7 DEF FinishRollback
      <3>1. TypeOK' BY DEF TypeOK, BasketStatus
      <3>2. exec'[b] = "done" /\ status'[b] = "FAILED" /\ exec[b] = "rolling"
        BY DEF TypeOK
      <3>3. Sound(b)'
        BY <3>2
        DEF Sound, FreshInv, StatusInv, LandedInv, SequentialInv, ParallelInv,
            Failed, Absent
      <3>4. ASSUME NEW c \in Baskets, c # b PROVE Sound(c)'
        BY <3>4, OthersStaySound DEF TypeOK
      <3>5. QED BY <3>1, <3>3, <3>4
    <2>8. QED BY <1>4, <2>1, <2>2, <2>3, <2>4, <2>5, <2>6, <2>7 DEF Executes
  <1>5. ASSUME NEW b \in Baskets, NEW ok \in BOOLEAN, CancelLeg(b, ok)
        PROVE  TypeOK' /\ \A c \in Baskets : Sound(c)'
    <2> USE <1>5 DEF CancelLeg, NextTurn
    <2>1. cpos \in Legs
      BY DEF TypeOK, Legs, Positions
    <2>2. /\ leg' \in [Baskets -> [Legs -> LegStatus]]
          /\ live' \in [Baskets -> SUBSET Legs]
          /\ \A c \in Baskets : c # b => leg'[c] = leg[c]
          /\ \A j \in Legs :
                \/ leg'[b][j] = leg[b][j]
                \/ leg[b][j] = "completed" /\ leg'[b][j] = "cancelled"
      BY <2>1, CancelTurnEffect
    <2>3. TypeOK' BY <2>1, <2>2 DEF TypeOK, Legs, Positions
    <2>4. Sound(b)'
      BY <2>2, CancelTurnIsSound
    <2>5. ASSUME NEW c \in Baskets, c # b PROVE Sound(c)'
      BY <2>2, <2>5, OthersStaySound
    <2>6. QED BY <2>3, <2>4, <2>5
  <1>6. ASSUME NEW b \in Baskets, FinishCancel(b)
        PROVE  TypeOK' /\ \A c \in Baskets : Sound(c)'
    <2> USE <1>6 DEF FinishCancel
    <2>1. TypeOK' BY DEF TypeOK, BasketStatus, Positions
    <2>2. status'[b] = "CANCELLED"
      BY DEF TypeOK
    <2>3. Sound(b)'
      BY <2>2
      DEF Sound, FreshInv, StatusInv, LandedInv, SequentialInv, ParallelInv,
          Failed, Absent
    <2>4. ASSUME NEW c \in Baskets, c # b PROVE Sound(c)'
      BY <2>4, OthersStaySound DEF TypeOK
    <2>5. QED BY <2>1, <2>3, <2>4
  <1>7. CASE UNCHANGED vars
    <2> USE <1>7 DEF vars, basket
    <2>1. TypeOK' BY DEF TypeOK
    <2>2. QED BY <2>1, OthersStaySound
  <1>8. QED
    BY <1>1, <1>2, <1>3, <1>4, <1>5, <1>6, <1>7 DEF Next, Cancelling

THEOREM Invariance == Spec => []IInv
  <1>1. Spec => Init /\ [][Next]_vars
    BY DEF Spec
  <1>2. QED BY <1>1, InitIInv, StepIInv, PTL

\* No leg is given to place_order twice, whatever calls interleave.
THEOREM PlacedOnce == Spec => []LegsPlacedOnce
  <1>1. IInv => LegsPlacedOnce
    BY DEF IInv, Sound, LegsPlacedOnce
  <1>2. QED BY <1>1, Invariance, PTL

\* Every variable stays in its type.
THEOREM TypeCorrect == Spec => []TypeOK
  <1>1. IInv => TypeOK
    BY DEF IInv
  <1>2. QED BY <1>1, Invariance, PTL

\* A sequential atomic basket places nothing behind a failed leg.
THEOREM StopsAtFailure == Spec => []NothingAfterFailure
  <1>1. IInv => NothingAfterFailure
    BY DEF IInv, Sound, NothingAfterFailure
  <1>2. QED BY <1>1, Invariance, PTL

\* COMPLETED and PARTIAL are said of the baskets whose legs bear them out.
THEOREM TrueVerdict == Spec => []VerdictIsTrue
  <1>1. IInv => VerdictIsTrue
    BY DEF IInv, Sound, VerdictIsTrue
  <1>2. QED BY <1>1, Invariance, PTL
-----------------------------------------------------------------------------
\* A leg that was not sent, or not answered, has no live order and no known one;
\* only known orders are cancelled; and where adapters set order_id, the order of a
\* completed leg is known.
KnownInv(b) == \A i \in Legs :
    /\ sent[b][i] = 0 \/ i \in flying[b] => i \notin live[b] \union orderId[b]
    /\ i \in flying[b] => sent[b][i] # 0
    /\ leg[b][i] = "cancelled" => i \in orderId[b]
    /\ AdapterSetsOrderId /\ leg[b][i] = "completed" /\ i \in live[b] => i \in orderId[b]

\* What the rollback has passed is taken back if it is known.
RolledInv(b) ==
    /\ exec[b] = "rolling" => \A i \in orderId[b] : i < pos[b] => leg[b][i] # "completed"
    /\ status[b] = "FAILED" =>
          exec[b] = "done" /\ \A i \in orderId[b] : leg[b][i] # "completed"

Back(b) == KnownInv(b) /\ RolledInv(b)

BackInv == \A b \in Baskets : Back(b)

\* A basket whose variables do not change stays as it is.
LEMMA OthersStayBack ==
    ASSUME NEW b \in Baskets, Back(b),
           status'[b] = status[b], leg'[b] = leg[b], sent'[b] = sent[b],
           flying'[b] = flying[b], exec'[b] = exec[b], pos'[b] = pos[b],
           live'[b] = live[b], orderId'[b] = orderId[b]
    PROVE  Back(b)'
  BY DEF Back, KnownInv, RolledInv

\* After a turn the leg is not completed if its order is known; the other legs, and
\* the other baskets, are as before.
LEMMA CancelTurnTakesBack ==
    ASSUME TypeOK, NEW b \in Baskets, NEW i \in Legs, NEW ok, CancelTurn(b, i, ok)
    PROVE  /\ \A c \in Baskets \ {b} : leg'[c] = leg[c] /\ live'[c] = live[c]
           /\ live'[b] \subseteq live[b]
           /\ \A j \in Legs : leg'[b][j] = "completed" => leg[b][j] = "completed"
           /\ \A j \in Legs : leg'[b][j] = "cancelled" /\ leg[b][j] # "cancelled" =>
                 j \in orderId[b]
           /\ i \in orderId[b] => leg'[b][i] # "completed"
  <1>1. CASE Cancels(b, i)
    <2>1. leg' = [leg EXCEPT ![b][i] = "cancelled"]
      BY <1>1 DEF CancelTurn
    <2>2. /\ \A c \in Baskets \ {b} : live'[c] = live[c]
          /\ live'[b] \subseteq live[b]
      BY <1>1 DEF CancelTurn, TypeOK
    <2>3. QED
      BY <1>1, <2>1, <2>2 DEF Cancels, TypeOK
  <1>2. CASE ~Cancels(b, i)
    <2>1. leg' = leg /\ live' = live
      BY <1>2 DEF CancelTurn
    <2>2. ~(leg[b][i] = "completed" /\ i \in orderId[b])
      BY <1>2 DEF Cancels
    <2>3. QED
      BY <2>1, <2>2
  <1>3. QED
    BY <1>1, <1>2

\* A step keeps what can be taken back.
LEMMA StepBack == IInv /\ BackInv /\ [Next]_vars => BackInv'
  <1> SUFFICES ASSUME TypeOK, \A b \in Baskets : Sound(b),
                      \A b \in Baskets : Back(b), [Next]_vars
               PROVE  \A b \in Baskets : Back(b)'
    BY DEF IInv, BackInv
  <1> USE BasketAssumptions
  <1>1. ASSUME NEW b \in Baskets, NEW par \in BOOLEAN, NEW ato \in BOOLEAN,
               CreateBasket(b, par, ato)
        PROVE  \A c \in Baskets : Back(c)'
    <2>1. Back(b)'
      BY <1>1 DEF CreateBasket, Back, KnownInv, RolledInv, TypeOK
    <2>2. ASSUME NEW c \in Baskets, c # b PROVE Back(c)'
      BY <1>1, <2>2, OthersStayBack DEF CreateBasket, TypeOK
    <2>3. QED
      BY <2>1, <2>2
  <1>2. ASSUME NEW b \in Baskets, ExecuteBasket(b) PROVE \A c \in Baskets : Back(c)'
    <2>1. /\ status'[b] = "IN_PROGRESS" /\ exec'[b] = "placing"
          /\ UNCHANGED <<leg, orderId, live>>
      BY <1>2 DEF ExecuteBasket, TypeOK
    <2>2. \A i \in Legs : i \notin live[b] \union orderId[b] /\ i \notin flying[b]
      BY <1>2 DEF ExecuteBasket, Startable, Sound, StatusInv, FreshInv, Back, KnownInv
    <2>3. \A i \in Legs : i \in flying'[b] => sent'[b][i] # 0
      BY <1>2, <2>2 DEF ExecuteBasket, Send, TypeOK
    <2>4. Back(b)'
      BY <2>1, <2>2, <2>3 DEF Back, KnownInv, RolledInv, TypeOK
    <2>5. ASSUME NEW c \in Baskets, c # b PROVE Back(c)'
      BY <1>2, <2>5, OthersStayBack DEF ExecuteBasket, Send, TypeOK
    <2>6. QED
      BY <2>4, <2>5
  <1>3. ASSUME NEW b \in Baskets, SkipLeg(b) PROVE \A c \in Baskets : Back(c)'
    <2>1. /\ \A i \in Legs : leg'[b][i] \in {"completed", "cancelled"} =>
                leg[b][i] = leg'[b][i]
          /\ exec[b] = "placing" /\ UNCHANGED <<status, sent, flying, live, orderId, exec>>
      BY <1>3 DEF SkipLeg, AtLeg, TypeOK, Legs, Positions
    <2>2. Back(b)'
      BY <2>1 DEF Back, KnownInv, RolledInv, Sound, StatusInv
    <2>3. ASSUME NEW c \in Baskets, c # b PROVE Back(c)'
      BY <1>3, <2>3, OthersStayBack DEF SkipLeg, TypeOK
    <2>4. QED
      BY <2>2, <2>3
  <1>4. ASSUME NEW b \in Baskets, PlaceLeg(b) PROVE \A c \in Baskets : Back(c)'
    <2>1. /\ pos[b] \in Legs /\ exec[b] = "placing" /\ flying[b] = {}
          /\ UNCHANGED <<status, leg, exec, live, orderId>>
      BY <1>4 DEF PlaceLeg, AtLeg, TypeOK, Legs, Positions
    <2>2. sent[b][pos[b]] = 0
      BY <2>1 DEF Sound, SequentialInv, ParallelInv, Legs
    <2>3. /\ flying'[b] = {pos[b]} /\ sent'[b][pos[b]] # 0
          /\ \A i \in Legs : sent'[b][i] = 0 => sent[b][i] = 0
      BY <1>4, <2>1 DEF PlaceLeg, Send, TypeOK
    <2>4. Back(b)'
      BY <2>1, <2>2, <2>3 DEF Back, KnownInv, RolledInv
    <2>5. ASSUME NEW c \in Baskets, c # b PROVE Back(c)'
      BY <1>4, <2>5, OthersStayBack DEF PlaceLeg, Send, TypeOK
    <2>6. QED
      BY <2>4, <2>5
  <1>5. ASSUME NEW b \in Baskets, NEW i \in Legs, NEW o \in Outcomes, LegReturns(b, i, o)
        PROVE  \A c \in Baskets : Back(c)'
    <2>1. exec[b] = "placing" /\ i \in flying[b] /\ i \notin live[b] \union orderId[b]
      BY <1>5 DEF LegReturns, Sound, FreshInv, LandedInv, Back, KnownInv, TypeOK
    <2>2. /\ leg'[b][i] = LegAfter(o)
          /\ \A j \in Legs \ {i} : leg'[b][j] = leg[b][j]
          /\ flying'[b] = flying[b] \ {i}
          /\ UNCHANGED <<status, sent, exec>>
      BY <1>5 DEF LegReturns, TypeOK
    <2>3. /\ live'[b] \subseteq live[b] \union {i}
          /\ i \in live'[b] => KeepsOrder(o)
          /\ orderId[b] \subseteq orderId'[b] /\ orderId'[b] \subseteq orderId[b] \union {i}
          /\ AdapterSetsOrderId /\ HasBrokerId(o) => i \in orderId'[b]
      BY <1>5, <2>1 DEF LegReturns, TypeOK
    <2>4. sent[b][i] # 0
      BY <2>1 DEF Back, KnownInv
    <2>5. /\ KeepsOrder(o) /\ LegAfter(o) = "completed" => HasBrokerId(o)
          /\ LegAfter(o) # "cancelled"
      BY DEF KeepsOrder, LegAfter, Success, HasBrokerId
    <2>6. Back(b)'
      BY <2>1, <2>2, <2>3, <2>4, <2>5 DEF Back, KnownInv, RolledInv, Sound, StatusInv
    <2>7. ASSUME NEW c \in Baskets, c # b PROVE Back(c)'
      BY <1>5, <2>7, OthersStayBack DEF LegReturns, TypeOK
    <2>8. QED
      BY <2>6, <2>7
  <1>6. ASSUME NEW b \in Baskets, FinishBasket(b) PROVE \A c \in Baskets : Back(c)'
    <2>1. /\ status'[b] # "FAILED" /\ exec'[b] = "done"
          /\ UNCHANGED <<leg, sent, flying, live, orderId>>
      BY <1>6 DEF FinishBasket, Verdict, TypeOK
    <2>2. Back(b)'
      BY <2>1 DEF Back, KnownInv, RolledInv
    <2>3. ASSUME NEW c \in Baskets, c # b PROVE Back(c)'
      BY <1>6, <2>3, OthersStayBack DEF FinishBasket, TypeOK
    <2>4. QED
      BY <2>2, <2>3
  <1>7. ASSUME NEW b \in Baskets, StartRollback(b) PROVE \A c \in Baskets : Back(c)'
    <2>1. /\ pos'[b] = 1 /\ exec[b] = "placing" /\ exec'[b] = "rolling"
          /\ UNCHANGED <<status, leg, sent, flying, live, orderId>>
      BY <1>7 DEF StartRollback, Placed, basket, TypeOK
    <2>2. Back(b)'
      BY <2>1 DEF Back, KnownInv, RolledInv, Legs, TypeOK
    <2>3. ASSUME NEW c \in Baskets, c # b PROVE Back(c)'
      BY <1>7, <2>3, OthersStayBack DEF StartRollback, basket, TypeOK
    <2>4. QED
      BY <2>2, <2>3
  <1>8. ASSUME NEW b \in Baskets, NEW ok \in BOOLEAN, RollbackLeg(b, ok)
        PROVE  \A c \in Baskets : Back(c)'
    <2>1. /\ pos[b] \in Legs /\ CancelTurn(b, pos[b], ok) /\ exec[b] = "rolling"
          /\ pos' = [pos EXCEPT ![b] = @ + 1]
          /\ UNCHANGED <<status, sent, flying, exec, orderId>>
      BY <1>8 DEF RollbackLeg, TypeOK, Legs, Positions
    <2>2. /\ \A c \in Baskets \ {b} : leg'[c] = leg[c] /\ live'[c] = live[c]
          /\ live'[b] \subseteq live[b]
          /\ \A j \in Legs : leg'[b][j] = "completed" => leg[b][j] = "completed"
          /\ \A j \in Legs : leg'[b][j] = "cancelled" /\ leg[b][j] # "cancelled" =>
                j \in orderId[b]
          /\ pos[b] \in orderId[b] => leg'[b][pos[b]] # "completed"
      BY <2>1, CancelTurnTakesBack
    <2>3. pos'[b] = pos[b] + 1 /\ orderId[b] \subseteq Legs
      BY <2>1 DEF TypeOK
    <2>4. KnownInv(b)'
      BY <2>1, <2>2 DEF Back, KnownInv
    <2>5. RolledInv(b)'
      BY <2>1, <2>2, <2>3 DEF Back, RolledInv, Legs
    <2>6. ASSUME NEW c \in Baskets, c # b PROVE Back(c)'
      BY <2>1, <2>2, <2>6, OthersStayBack DEF TypeOK
    <2>7. QED
      BY <2>4, <2>5, <2>6 DEF Back
  <1>9. ASSUME NEW b \in Baskets, FinishRollback(b) PROVE \A c \in Baskets : Back(c)'
    <2>1. /\ exec[b] = "rolling" /\ exec'[b] = "done" /\ pos[b] = NumLegs + 1
          /\ UNCHANGED <<leg, sent, flying, live, orderId>>
      BY <1>9 DEF FinishRollback, TypeOK
    <2>2. \A i \in orderId[b] : i < NumLegs + 1
      BY DEF TypeOK, Legs
    <2>3. Back(b)'
      BY <2>1, <2>2 DEF Back, KnownInv, RolledInv
    <2>4. ASSUME NEW c \in Baskets, c # b PROVE Back(c)'
      BY <1>9, <2>4, OthersStayBack DEF FinishRollback, TypeOK
    <2>5. QED
      BY <2>3, <2>4
  <1>10. ASSUME NEW b \in Baskets, NEW ok \in BOOLEAN, CancelLeg(b, ok)
         PROVE  \A c \in Baskets : Back(c)'
    <2>1. /\ cpos \in Legs /\ CancelTurn(b, cpos, ok)
          /\ UNCHANGED <<status, sent, flying, exec, pos, orderId>>
      BY <1>10 DEF CancelLeg, TypeOK, Legs, Positions
    <2>2. /\ \A c \in Baskets \ {b} : leg'[c] = leg[c] /\ live'[c] = live[c]
          /\ live'[b] \subseteq live[b]
          /\ \A j \in Legs : leg'[b][j] = "completed" => leg[b][j] = "completed"
          /\ \A j \in Legs : leg'[b][j] = "cancelled" /\ leg[b][j] # "cancelled" =>
                j \in orderId[b]
      BY <2>1, CancelTurnTakesBack
    <2>3. Back(b)'
      BY <2>1, <2>2 DEF Back, KnownInv, RolledInv, TypeOK
    <2>4. ASSUME NEW c \in Baskets, c # b PROVE Back(c)'
      BY <2>1, <2>2, <2>4, OthersStayBack
    <2>5. QED
      BY <2>3, <2>4
  <1>11. ASSUME NEW b \in Baskets, FinishCancel(b) PROVE \A c \in Baskets : Back(c)'
    <2>1. /\ status'[b] = "CANCELLED"
          /\ UNCHANGED <<leg, sent, flying, live, orderId, exec, pos>>
      BY <1>11 DEF FinishCancel, TypeOK
    <2>2. Back(b)'
      BY <2>1 DEF Back, KnownInv, RolledInv
    <2>3. ASSUME NEW c \in Baskets, c # b PROVE Back(c)'
      BY <1>11, <2>3, OthersStayBack DEF FinishCancel, TypeOK
    <2>4. QED
      BY <2>2, <2>3
  <1>12. ASSUME NEW b \in Baskets, CancelBasket(b) PROVE \A c \in Baskets : Back(c)'
    BY <1>12, OthersStayBack DEF CancelBasket, basket
  <1>13. CASE UNCHANGED vars
    BY <1>13, OthersStayBack DEF vars, basket
  <1>14. QED
    BY <1>1, <1>2, <1>3, <1>4, <1>5, <1>6, <1>7, <1>8, <1>9, <1>10, <1>11, <1>12, <1>13
       DEF Next, Executes, Cancelling

\* Whatever the adapter, a failed basket that is done has asked for the cancellation
\* of the orders it knows and no others; where adapters set order_id, these are all
\* it had an answer for.
THEOREM RollsBack ==
    Spec => [](RollbackIsExact /\ (AdapterSetsOrderId => RollbackIsComplete))
  <1>1. Init => BackInv
    BY DEF Init, BackInv, Back, KnownInv, RolledInv, Absent
  <1>2. IInv /\ BackInv /\ [Next]_vars => BackInv'
    BY StepBack
  <1>3. IInv /\ BackInv => RollbackIsExact
    BY DEF BackInv, Back, KnownInv, RolledInv, RollbackIsExact
  <1>4. IInv /\ BackInv => (AdapterSetsOrderId => RollbackIsComplete)
    <2> SUFFICES ASSUME TypeOK, BackInv, AdapterSetsOrderId PROVE RollbackIsComplete
      BY DEF IInv
    <2>1. \A b \in Baskets : live[b] \subseteq Legs
      BY DEF TypeOK
    <2>2. QED
      BY <2>1 DEF BackInv, Back, KnownInv, RolledInv, RollbackIsComplete
  <1>5. QED
    BY <1>1, <1>2, <1>3, <1>4, Invariance, PTL DEF Spec
=============================================================================
