-------------------------- MODULE Services_proofs ---------------------------
(***************************************************************************)
(* What is asked for and counted: theorems about smart orders, the jobs of *)
(* backtests, referrals, commissions, split orders and the analysis, each  *)
(* from an inductive invariant of its component, and then about their      *)
(* composition, as in Messages_proofs.                                     *)
(***************************************************************************)
EXTENDS Messages_proofs, StrategyLifecycle_proofs

(***************************************************************************)
(* Counting                                                                *)
(***************************************************************************)

\* A part of a finite set has a size, which is no more than that of the set.
LEMMA Sizes ==
    ASSUME NEW U, IsFiniteSet(U), NEW S \in SUBSET U
    PROVE  /\ IsFiniteSet(S) /\ Cardinality(S) \in Nat /\ Cardinality(U) \in Nat
           /\ Cardinality(S) <= Cardinality(U)
  BY FS_Subset, FS_CardinalityType

\* Sizes grow with the parts.
LEMMA LargerPart ==
    ASSUME NEW U, IsFiniteSet(U), NEW T \in SUBSET U, NEW S \in SUBSET T
    PROVE  Cardinality(S) <= Cardinality(T) /\ Cardinality(S) \in Nat
                                            /\ Cardinality(T) \in Nat
  <1>1. IsFiniteSet(T)
    BY FS_Subset
  <1>2. QED
    BY <1>1, FS_Subset, FS_CardinalityType

\* One element more makes them larger by one.
LEMMA OneMore ==
    ASSUME NEW U, IsFiniteSet(U), NEW S \in SUBSET U, NEW x, x \notin S
    PROVE  Cardinality(S \union {x}) = Cardinality(S) + 1 /\ Cardinality(S) \in Nat
  <1>1. IsFiniteSet(S)
    BY FS_Subset
  <1>2. QED
    BY <1>1, FS_AddElement, FS_CardinalityType

\* Where all elements are the same there is one at most.
LEMMA AtMostOne ==
    ASSUME NEW S, \A x, y \in S : x = y
    PROVE  Cardinality(S) <= 1
  <1>1. CASE S = {}
    BY <1>1, FS_EmptySet
  <1>2. CASE S # {}
    <2>1. PICK x \in S : S = {x}
      BY <1>2
    <2>2. QED
      BY <2>1, FS_Singleton
  <1>3. QED
    BY <1>1, <1>2

(***************************************************************************)
(* Smart orders                                                            *)
(***************************************************************************)

\* The limit is a quantity that can be placed, no window reaches to the oldest
\* age, and no request is called Nobody.
SmartAssumptions ==
    /\ MaxPosition \in Quantities
    /\ Oldest \in Nat /\ Windows \subseteq 0..Oldest
    /\ Nobody \notin SmartRequests

\* Only the request that is sent to the broker holds the lock.
LockInv == holder # Nobody => smartAt[holder] = "placing"

\* A success is remembered as long as its age, unless its key was thrown away.
RememberedInv ==
    \A p \in SmartRequests :
        smartAt[p] = "executed" /\ p \notin purged => recent[Smart!Placed(p)] <= age[p]

\* What is remembered did succeed, and not before that.
SucceededInv ==
    \A q \in Quantities : recent[q] < Oldest =>
        \E p \in SmartRequests :
            smartAt[p] = "executed" /\ Smart!Placed(p) = q /\ age[p] <= recent[q]

SmartInv == Smart!TypeOK /\ LockInv /\ RememberedInv /\ SucceededInv

\* An order is placed with a quantity of the keys, whatever becomes of others.
LEMMA PlacedQuantity ==
    ASSUME SmartAssumptions, Smart!TypeOK, NEW r \in SmartRequests
    PROVE  Smart!Placed(r) \in Quantities
  BY DEF SmartAssumptions, Smart!TypeOK, Smart!Ask, Smart!Placed

\* What a request asks for are a quantity and a window, and ages are bounded.
LEMMA SmartNumbers ==
    ASSUME SmartAssumptions, Smart!TypeOK, NEW r \in SmartRequests
    PROVE  /\ ask[r].quantity \in Quantities /\ ask[r].window \in 0..Oldest
           /\ recent[ask[r].quantity] \in 0..Oldest /\ age[r] \in 0..Oldest
  <1>1. ask[r] \in [quantity : Quantities, window : Windows, limited : BOOLEAN,
                    check : BOOLEAN]
    BY DEF Smart!TypeOK, Smart!Ask
  <1>2. ask[r].quantity \in Quantities /\ ask[r].window \in Windows
    BY <1>1, Zenon
  <1>3. QED
    BY <1>2 DEF SmartAssumptions, Smart!TypeOK

\* Init establishes the invariant.
LEMMA SmartInit == SmartAssumptions /\ Smart!Init => SmartInv
  BY DEF SmartAssumptions, Smart!Init, SmartInv, Smart!TypeOK, LockInv, RememberedInv,
         SucceededInv

\* A step keeps the types.
LEMMA SmartTypes ==
    ASSUME SmartAssumptions, SmartInv, [Smart!Next]_(Smart!vars)
    PROVE  Smart!TypeOK'
  <1> USE DEF SmartAssumptions, SmartInv, Smart!TypeOK
  <1>1. ASSUME NEW r \in SmartRequests, Smart!Arrive(r) PROVE Smart!TypeOK'
    BY <1>1 DEF Smart!Arrive
  <1>2. ASSUME NEW r \in SmartRequests, Smart!CheckRequest(r) PROVE Smart!TypeOK'
    <2>1. recent' \in [Quantities -> 0..Oldest]
      BY <1>2 DEF Smart!CheckRequest, Smart!Purge
    <2>2. purged' \subseteq SmartRequests
      BY <1>2 DEF Smart!CheckRequest, Smart!Purged
    <2>3. QED
      BY <1>2, <2>1, <2>2 DEF Smart!CheckRequest
  <1>3. ASSUME NEW r \in SmartRequests, NEW o \in Smart!Outcomes, Smart!OrderReturns(r, o)
        PROVE  Smart!TypeOK'
    <2>1. recent' \in [Quantities -> 0..Oldest]
      BY <1>3, PlacedQuantity DEF Smart!OrderReturns
    <2>2. QED
      BY <1>3, <2>1 DEF Smart!OrderReturns
  <1>4. CASE Smart!Tick
    BY <1>4 DEF Smart!Tick
  <1>5. CASE UNCHANGED Smart!vars
    BY <1>5 DEF Smart!vars
  <1>6. QED
    BY <1>1, <1>2, <1>3, <1>4, <1>5 DEF Smart!Next

\* A step keeps what is known of the lock and of the keys.
LEMMA SmartStep ==
    ASSUME SmartAssumptions, SmartInv, [Smart!Next]_(Smart!vars)
    PROVE  LockInv' /\ RememberedInv' /\ SucceededInv'
  <1> USE DEF SmartInv, Smart!TypeOK, LockInv, RememberedInv, SucceededInv, Smart!Placed
  <1>1. ASSUME NEW r \in SmartRequests, Smart!Arrive(r)
        PROVE  LockInv' /\ RememberedInv' /\ SucceededInv'
    BY <1>1 DEF Smart!Arrive, SmartAssumptions
  <1>2. ASSUME NEW r \in SmartRequests, Smart!CheckRequest(r)
        PROVE  LockInv' /\ RememberedInv' /\ SucceededInv'
    <2>1. /\ smartAt[r] = "waiting" /\ UNCHANGED <<ask, age>>
          /\ \/ smartAt' = [smartAt EXCEPT ![r] = "blocked"] /\ holder' = Nobody
             \/ smartAt' = [smartAt EXCEPT ![r] = "placing"] /\ holder' = r
          /\ \A p \in SmartRequests : (smartAt'[p] = "executed") = (smartAt[p] = "executed")
      BY <1>2 DEF Smart!CheckRequest
    <2>2. LockInv'
      BY <2>1
    <2>3. \A q \in Quantities : recent'[q] = recent[q] \/ recent'[q] = Oldest
      BY <1>2 DEF Smart!CheckRequest, Smart!Purge
    <2>4. SucceededInv'
      BY <2>1, <2>3 DEF SmartAssumptions
    <2>5. RememberedInv'
      <3> SUFFICES ASSUME NEW p \in SmartRequests, smartAt[p] = "executed", p \notin purged'
                   PROVE  recent'[Smart!Placed(p)] <= age[p]
        BY <2>1
      <3>1. recent[Smart!Placed(p)] <= age[p] /\ Smart!Placed(p) \in Quantities
        BY <1>2, PlacedQuantity DEF Smart!CheckRequest
      <3>2. CASE ~ask[r].check
        BY <1>2, <3>1, <3>2 DEF Smart!CheckRequest
      <3>3. CASE ask[r].check
        <4>1. ~(ask[r].window <= age[p] /\ age[p] < Oldest)
          BY <1>2, <3>3 DEF Smart!CheckRequest, Smart!Purged
        <4>2. ask[r].window \in 0..Oldest /\ age[p] \in 0..Oldest
          BY SmartNumbers
        <4>3. recent'[Smart!Placed(p)] = IF recent[Smart!Placed(p)] >= ask[r].window
                                           THEN Oldest ELSE recent[Smart!Placed(p)]
          BY <1>2, <3>1, <3>3 DEF Smart!CheckRequest, Smart!Purge
        <4>4. QED
          BY <3>1, <4>1, <4>2, <4>3 DEF SmartAssumptions
      <3>4. QED
        BY <3>2, <3>3
    <2>6. QED
      BY <2>2, <2>4, <2>5
  <1>3. ASSUME NEW r \in SmartRequests, NEW o \in Smart!Outcomes, Smart!OrderReturns(r, o)
        PROVE  LockInv' /\ RememberedInv' /\ SucceededInv'
    <2>1. /\ smartAt[r] = "placing" /\ holder' = Nobody /\ UNCHANGED <<ask, purged>>
          /\ Smart!Placed(r) \in Quantities
      BY <1>3, PlacedQuantity DEF Smart!OrderReturns, SmartAssumptions
    <2>2. CASE Smart!Success(o)
      <3>1. /\ smartAt' = [smartAt EXCEPT ![r] = "executed"]
            /\ recent' = [recent EXCEPT ![Smart!Placed(r)] = 0]
            /\ age' = [age EXCEPT ![r] = 0]
        BY <1>3, <2>2 DEF Smart!OrderReturns, Smart!Records
      <3>2. RememberedInv'
        BY <2>1, <3>1, PlacedQuantity DEF SmartAssumptions
      <3>3. SucceededInv'
        BY <2>1, <3>1
      <3>4. QED
        BY <2>1, <3>2, <3>3
    <2>3. CASE ~Smart!Success(o)
      <3>1. smartAt' = [smartAt EXCEPT ![r] = "rejected"] /\ UNCHANGED <<recent, age>>
        BY <1>3, <2>3 DEF Smart!OrderReturns, Smart!Records
      <3>2. QED
        BY <2>1, <3>1
    <2>4. QED
      BY <2>2, <2>3
  <1>4. CASE Smart!Tick
    <2>1. /\ \A q \in Quantities :
                recent'[q] = IF recent[q] < Oldest THEN recent[q] + 1 ELSE Oldest
          /\ \A p \in SmartRequests :
                age'[p] = IF age[p] < Oldest THEN age[p] + 1 ELSE Oldest
          /\ UNCHANGED <<smartAt, ask, holder, purged>>
      BY <1>4 DEF Smart!Tick
    <2>2. RememberedInv'
      BY <2>1, PlacedQuantity DEF SmartAssumptions
    <2>3. SucceededInv'
      BY <2>1 DEF SmartAssumptions
    <2>4. QED
      BY <2>1, <2>2, <2>3
  <1>5. CASE UNCHANGED Smart!vars
    BY <1>5 DEF Smart!vars
  <1>6. QED
    BY <1>1, <1>2, <1>3, <1>4, <1>5 DEF Smart!Next

\* The invariant holds throughout.
LEMMA SmartInvariant == SmartAssumptions /\ Smart!Spec => []SmartInv
  <1> SUFFICES ASSUME SmartAssumptions PROVE Smart!Spec => []SmartInv
    OBVIOUS
  <1>1. SmartInv /\ [Smart!Next]_(Smart!vars) => SmartInv'
    BY SmartTypes, SmartStep DEF SmartInv
  <1>2. QED
    BY <1>1, SmartInit, PTL DEF Smart!Spec

\* A checked request is placed although the same one succeeded within its window only
\* if that one was cut or its key thrown away.
LEMMA BlockedIfDuplicate ==
    ASSUME SmartAssumptions, SmartInv, Smart!Next, NEW r \in SmartRequests,
           NEW p \in SmartRequests,
           smartAt[r] = "waiting", smartAt'[r] = "placing", ask[r].check,
           Smart!InWindow(p, r), ask[p].quantity = ask[r].quantity
    PROVE  Smart!Placed(p) # ask[p].quantity \/ p \in purged
  <1>1. PICK s \in SmartRequests :
           \/ Smart!Arrive(s) \/ Smart!CheckRequest(s)
           \/ \E o \in Smart!Outcomes : Smart!OrderReturns(s, o)
    BY DEF Smart!Next, Smart!Tick
  <1>2. Smart!CheckRequest(r) /\ ~Smart!IsDuplicate(r)
    BY <1>1 DEF Smart!Arrive, Smart!CheckRequest, Smart!OrderReturns, SmartInv,
       Smart!TypeOK
  <1>3. ~(recent[ask[r].quantity] < ask[r].window)
    BY <1>2 DEF Smart!IsDuplicate
  <1>4. age[p] < ask[r].window /\ (p \in purged \/ recent[Smart!Placed(p)] <= age[p])
    BY DEF Smart!InWindow, SmartInv, RememberedInv
  <1>5. /\ recent[ask[r].quantity] \in Nat /\ age[p] \in Nat /\ ask[r].window \in Nat
    BY SmartNumbers DEF SmartInv, SmartAssumptions
  <1>6. QED
    BY <1>3, <1>4, <1>5

\* A request is blocked only if an order of its quantity succeeded within its window.
LEMMA BlockedOnlyIfDuplicate ==
    ASSUME SmartAssumptions, SmartInv, Smart!Next, NEW r \in SmartRequests,
           smartAt[r] = "waiting", smartAt'[r] = "blocked"
    PROVE  \E p \in SmartRequests :
              Smart!InWindow(p, r) /\ Smart!Placed(p) = ask[r].quantity
  <1>1. PICK s \in SmartRequests :
           \/ Smart!Arrive(s) \/ Smart!CheckRequest(s)
           \/ \E o \in Smart!Outcomes : Smart!OrderReturns(s, o)
    BY DEF Smart!Next, Smart!Tick
  <1>2. Smart!IsDuplicate(r)
    BY <1>1 DEF Smart!Arrive, Smart!CheckRequest, Smart!OrderReturns, SmartInv,
       Smart!TypeOK
  <1>3. /\ recent[ask[r].quantity] < ask[r].window /\ ask[r].quantity \in Quantities
        /\ recent[ask[r].quantity] \in Nat /\ ask[r].window \in 0..Oldest
    BY <1>2, SmartNumbers DEF Smart!IsDuplicate, SmartInv, SmartAssumptions
  <1>4. PICK p \in SmartRequests : /\ smartAt[p] = "executed"
                                   /\ Smart!Placed(p) = ask[r].quantity
                                   /\ age[p] <= recent[ask[r].quantity]
    BY <1>3 DEF SmartInv, SucceededInv, SmartAssumptions
  <1>5. age[p] \in Nat
    BY DEF SmartInv, Smart!TypeOK
  <1>6. QED
    BY <1>3, <1>4, <1>5 DEF Smart!InWindow

(***************************************************************************)
(* Backtest jobs                                                           *)
(***************************************************************************)

\* There are finitely many submissions, and the tier allows a number of them.
JobAssumptions == IsFiniteSet(Jobs) /\ Tier \in Nat /\ MaxRuns \in Nat

\* Where a submission and its task are: before the task is sent nothing ran and
\* nothing was read, before the increment nothing was counted.
PlaceInv(j) ==
    /\ jobTask[j] = "stored" => j \in held
    /\ submit[j] # "over" =>
          /\ jobTask[j] = "none" /\ job[j] \in {"none", "pending"}
          /\ fetching[j] = "no" /\ j \notin freed
    /\ submit[j] \in {"idle", "checked", "created"} => j \notin counted

Owners == counted \ freed

\* Without an excuse: a task has its slot from the increment on, and keeps it until
\* its result is read, when it is over;
SlotInv(j) ==
    /\ submit[j] = "counted" \/ jobTask[j] # "none" => j \in counted
    /\ job[j] = "complete" \/ fetching[j] = "decr" \/ j \in freed =>
          jobTask[j] \in {"stored", "done"}
    /\ fetching[j] # "reset"
    /\ submit[j] \in {"checked", "created"} =>
          /\ slots < Tier
          /\ \A i \in Jobs : submit[i] \in {"checked", "created"} => i = j

\* and the counter counts the slots, which are no more than the tier allows.
ExactInv ==
    excused = {} =>
        /\ slots = Cardinality(Owners) /\ slots <= Tier
        /\ \A j \in Jobs : SlotInv(j)

JobInv ==
    /\ Job!TypeOK
    /\ \A j \in Jobs : PlaceInv(j)
    /\ Job!CompleteHasResult
    /\ Job!SlotsHaveOwners
    /\ ExactInv

\* The cardinality of the instance is that of the library.
LEMMA JobCounting == \A S : Job!Cardinality(S) = Cardinality(S)
  BY DEF Cardinality, Job!Cardinality

\* The owners of slots can be counted.
LEMMA OwnersAreFinite ==
    ASSUME JobAssumptions, Job!TypeOK
    PROVE  IsFiniteSet(Owners) /\ Cardinality(Owners) \in Nat
  <1>1. Owners \subseteq Jobs
    BY DEF Owners, Job!TypeOK
  <1>2. QED
    BY <1>1, FS_Subset, FS_CardinalityType DEF JobAssumptions

\* An increment makes one more of them, unless the job has its slot already,
LEMMA OneMoreOwner ==
    ASSUME JobAssumptions, Job!TypeOK, NEW j \in Jobs,
           j \notin counted, j \notin freed,
           counted' = counted \union {j}, freed' = freed
    PROVE  Cardinality(Owners') = Cardinality(Owners) + 1
  <1>1. Owners' = Owners \union {j} /\ j \notin Owners
    BY DEF Owners
  <1>2. QED
    BY <1>1, OwnersAreFinite, FS_AddElement

\* and a read result makes one less, unless it was read or never counted.
LEMMA OneOwnerLess ==
    ASSUME JobAssumptions, Job!TypeOK, NEW j \in Jobs,
           freed' = freed \union {j}, counted' = counted
    PROVE  /\ Cardinality(Owners') \in Nat
           /\ Cardinality(Owners') = Cardinality(Owners) - (IF j \in Owners THEN 1 ELSE 0)
  <1>1. CASE j \in Owners
    <2>1. Owners' = Owners \ {j}
      BY DEF Owners
    <2>2. QED
      BY <1>1, <2>1, OwnersAreFinite, FS_RemoveElement, FS_CardinalityType
  <1>2. CASE j \notin Owners
    <2>1. Owners' = Owners
      BY <1>2 DEF Owners
    <2>2. QED
      BY <1>2, <2>1, OwnersAreFinite
  <1>3. QED
    BY <1>1, <1>2

\* Init establishes the invariant.
LEMMA JobInit == JobAssumptions /\ Job!Init => JobInv
  <1> SUFFICES ASSUME JobAssumptions, Job!Init PROVE JobInv
    OBVIOUS
  <1>1. Owners = {} /\ Cardinality(Owners) = 0
    BY FS_EmptySet DEF Job!Init, Owners
  <1>2. Job!TypeOK
    BY DEF JobAssumptions, Job!Init, Job!TypeOK, Job!Status
  <1>3. Job!SlotsHaveOwners /\ Job!CompleteHasResult /\ \A j \in Jobs : PlaceInv(j)
    BY <1>1, JobCounting
       DEF Owners, Job!Init, Job!SlotsHaveOwners, Job!CompleteHasResult, PlaceInv
  <1>4. ExactInv
    BY <1>1 DEF JobAssumptions, Job!Init, ExactInv, SlotInv
  <1>5. QED
    BY <1>2, <1>3, <1>4 DEF JobInv

\* A step keeps the types.
LEMMA JobTypes ==
    ASSUME JobAssumptions, Job!TypeOK, [Job!Next]_(Job!vars) PROVE Job!TypeOK'
  <1> USE DEF JobAssumptions, Job!TypeOK, Job!Status, Job!Excuse, Job!Excuses
  <1>a. ASSUME NEW why \in {"race", "again", "redis"}, NEW holds, Job!Excuse(why, holds)
        PROVE  excused' \subseteq Job!Excuses
    BY <1>a
  <1>1. ASSUME NEW j \in Jobs,
               \/ Job!Check(j) \/ Job!CheckFails(j) \/ Job!CreatePending(j)
               \/ Job!CreateFails(j) \/ Job!Send(j) \/ Job!SendFails(j)
        PROVE  Job!TypeOK'
    <2>1. excused' \subseteq Job!Excuses
      BY <1>1, <1>a DEF Job!Check, Job!CheckFails, Job!CreatePending, Job!CreateFails,
         Job!Send, Job!SendFails
    <2>2. QED
      BY <1>1, <2>1 DEF Job!Check, Job!CheckFails, Job!CreatePending, Job!CreateFails,
         Job!Send, Job!SendFails
  <1>2. ASSUME NEW j \in Jobs, Job!Increment(j) PROVE Job!TypeOK'
    <2>1. slots' \in Int /\ counted' \subseteq Jobs
      BY <1>2 DEF Job!Increment
    <2>2. excused' \subseteq Job!Excuses
      BY <1>2, <1>a DEF Job!Increment
    <2>3. QED
      BY <1>2, <2>1, <2>2 DEF Job!Increment
  <1>3. ASSUME NEW j \in Jobs, Job!Deliver(j) PROVE Job!TypeOK'
    BY <1>3 DEF Job!Deliver
  <1>4. ASSUME NEW j \in Jobs,
               \/ Job!StoreResult(j) \/ Job!FinishTask(j) \/ Job!TaskFails(j)
               \/ Job!WorkerDies(j) \/ Job!TimeLimit(j)
        PROVE  Job!TypeOK'
    BY <1>4 DEF Job!StoreResult, Job!FinishTask, Job!TaskFails, Job!WorkerDies,
       Job!TimeLimit
  <1>5. ASSUME NEW j \in Jobs, Job!Read(j) \/ Job!Decrement(j) \/ Job!Reset(j)
        PROVE  Job!TypeOK'
    <2>1. CASE Job!Read(j) \/ Job!Reset(j)
      <3>1. slots' \in Int
        BY <2>1 DEF Job!Read, Job!Reset
      <3>2. QED
        BY <2>1, <3>1 DEF Job!Read, Job!Reset
    <2>2. CASE Job!Decrement(j)
      <3>1. /\ slots' \in Int /\ freed' \subseteq Jobs
            /\ fetching' \in [Jobs -> {"no", "decr", "reset"}]
        BY <2>2 DEF Job!Decrement
      <3>2. excused' \subseteq Job!Excuses
        BY <2>2 DEF Job!Decrement
      <3>3. QED
        BY <2>2, <3>1, <3>2 DEF Job!Decrement
    <2>3. QED
      BY <1>5, <2>1, <2>2
  <1>6. CASE Job!SlotsExpire
    <2>1. slots' \in Int
      BY <1>6 DEF Job!SlotsExpire
    <2>2. QED
      BY <1>6, <2>1 DEF Job!SlotsExpire
  <1>7. CASE UNCHANGED Job!vars
    BY <1>7 DEF Job!vars
  <1>8. QED
    BY <1>1, <1>2, <1>3, <1>4, <1>5, <1>6, <1>7 DEF Job!Next

\* A step keeps every submission and its task in their places.
LEMMA PlaceStep ==
    ASSUME JobInv, [Job!Next]_(Job!vars)
    PROVE  (\A j \in Jobs : PlaceInv(j)') /\ Job!CompleteHasResult'
  <1> USE DEF JobInv, Job!TypeOK, PlaceInv, Job!CompleteHasResult
  <1> DEFINE Kept == (\A j \in Jobs : PlaceInv(j)') /\ Job!CompleteHasResult'
  <1>1. ASSUME NEW j \in Jobs,
               \/ Job!Check(j) \/ Job!CheckFails(j) \/ Job!CreatePending(j)
               \/ Job!CreateFails(j) \/ Job!Increment(j) \/ Job!Send(j) \/ Job!SendFails(j)
        PROVE  Kept
    BY <1>1 DEF Job!Check, Job!CheckFails, Job!CreatePending, Job!CreateFails,
       Job!Increment, Job!Send, Job!SendFails
  <1>2. ASSUME NEW j \in Jobs,
               \/ Job!Deliver(j) \/ Job!StoreResult(j) \/ Job!FinishTask(j)
               \/ Job!TaskFails(j) \/ Job!WorkerDies(j) \/ Job!TimeLimit(j)
        PROVE  Kept
    BY <1>2 DEF Job!Deliver, Job!StoreResult, Job!FinishTask, Job!TaskFails,
       Job!WorkerDies, Job!TimeLimit
  <1>3. ASSUME NEW j \in Jobs, Job!Read(j) \/ Job!Decrement(j) \/ Job!Reset(j)
        PROVE  Kept
    BY <1>3 DEF Job!Read, Job!Readable, Job!Decrement, Job!Reset
  <1>4. CASE Job!SlotsExpire \/ UNCHANGED Job!vars
    BY <1>4 DEF Job!SlotsExpire, Job!vars
  <1>5. QED
    BY <1>1, <1>2, <1>3, <1>4 DEF Job!Next

\* A step keeps what is known of the counter.
LEMMA SlotStep ==
    ASSUME JobAssumptions, JobInv, [Job!Next]_(Job!vars)
    PROVE  Job!SlotsHaveOwners' /\ ExactInv'
  <1> DEFINE Kept == Job!SlotsHaveOwners' /\ ExactInv'
  <1>0. Cardinality(Owners) \in Nat /\ slots <= Cardinality(Owners) /\ slots \in Int
    BY OwnersAreFinite, JobCounting DEF JobInv, Job!TypeOK, Job!SlotsHaveOwners, Owners
  <1>a. Job!SlotsHaveOwners' <=> slots' <= Cardinality(Owners')
    BY JobCounting DEF Job!SlotsHaveOwners, Owners
  <1> USE DEF JobInv, Job!TypeOK, PlaceInv, ExactInv, SlotInv, Job!Excuse, JobAssumptions
  \* The steps that leave the counter and the owners as they are.
  <1>1. ASSUME UNCHANGED <<slots, counted, freed>>
        PROVE  Owners' = Owners
    BY <1>1 DEF Owners
  <1>2. ASSUME NEW j \in Jobs, Job!Check(j) PROVE Kept
    BY <1>0, <1>a, <1>1, <1>2 DEF Job!Check, Job!CanStart
  <1>3. ASSUME NEW j \in Jobs, Job!CheckFails(j) PROVE Kept
    BY <1>0, <1>a, <1>1, <1>3 DEF Job!CheckFails
  <1>4. ASSUME NEW j \in Jobs,
               \/ Job!CreatePending(j) \/ Job!CreateFails(j) \/ Job!Send(j)
               \/ Job!SendFails(j)
        PROVE  Kept
    BY <1>0, <1>a, <1>1, <1>4 DEF Job!CreatePending, Job!CreateFails, Job!Send,
       Job!SendFails
  <1>5. ASSUME NEW j \in Jobs, Job!Increment(j) PROVE Kept
    <2>1. CASE UNCHANGED <<slots, counted>> /\ excused' # {}
      BY <1>0, <1>a, <1>1, <1>5, <2>1 DEF Job!Increment
    <2>2. CASE slots' = slots + 1 /\ counted' = counted \union {j} /\ UNCHANGED excused
      <3>1. Cardinality(Owners') = Cardinality(Owners) + 1
        BY <1>5, <2>2, OneMoreOwner DEF Job!Increment
      <3>2. QED
        BY <1>0, <1>a, <1>5, <2>2, <3>1 DEF Job!Increment
    <2>3. QED
      BY <1>5, <2>1, <2>2 DEF Job!Increment
  <1>6. ASSUME NEW j \in Jobs,
               \/ Job!Deliver(j) \/ Job!StoreResult(j) \/ Job!FinishTask(j)
               \/ Job!TaskFails(j) \/ Job!TimeLimit(j)
        PROVE  Kept
    BY <1>0, <1>a, <1>1, <1>6 DEF Job!Deliver, Job!StoreResult, Job!FinishTask,
       Job!TaskFails, Job!TimeLimit
  <1>7. ASSUME NEW j \in Jobs, Job!WorkerDies(j) PROVE Kept
    BY <1>0, <1>a, <1>1, <1>7 DEF Job!WorkerDies
  <1>8. ASSUME NEW j \in Jobs, Job!Read(j) PROVE Kept
    BY <1>0, <1>a, <1>1, <1>8 DEF Job!Read, Job!Readable
  <1>9. ASSUME NEW j \in Jobs, Job!Decrement(j) PROVE Kept
    <2>1. CASE UNCHANGED <<slots, freed>> /\ excused' # {}
      BY <1>0, <1>a, <1>1, <1>9, <2>1 DEF Job!Decrement
    <2>2. CASE /\ slots' = slots - 1 /\ freed' = freed \union {j}
               /\ excused' = {} => excused = {} /\ j \notin freed
               /\ fetching' = [fetching EXCEPT ![j] = IF slots' >= 0 THEN "no" ELSE "reset"]
      <3>1. /\ fetching[j] = "decr"
            /\ UNCHANGED <<submit, job, jobTask, deliveries, held, counted>>
        BY <1>9 DEF Job!Decrement
      <3>2. /\ Cardinality(Owners') \in Nat
            /\ Cardinality(Owners') =
                  Cardinality(Owners) - (IF j \in Owners THEN 1 ELSE 0)
        BY <2>2, <3>1, OneOwnerLess
      <3>3. Job!SlotsHaveOwners'
        BY <1>0, <1>a, <2>2, <3>2
      <3>4. ASSUME excused' = {} PROVE ExactInv'
        <4>1. j \in Owners
          BY <2>2, <3>1, <3>4 DEF Owners
        <4>2. QED
          BY <1>0, <2>2, <3>1, <3>2, <4>1
      <3>5. QED
        BY <3>3, <3>4
    <2>3. QED
      BY <1>0, <1>9, <2>1, <2>2 DEF Job!Decrement
  <1>10. ASSUME NEW j \in Jobs, Job!Reset(j) PROVE Kept
    BY <1>0, <1>a, <1>10 DEF Job!Reset, Owners
  <1>11. CASE Job!SlotsExpire
    BY <1>0, <1>a, <1>11 DEF Job!SlotsExpire, Owners
  <1>12. CASE UNCHANGED Job!vars
    BY <1>0, <1>a, <1>1, <1>12 DEF Job!vars
  <1>13. QED
    BY <1>2, <1>3, <1>4, <1>5, <1>6, <1>7, <1>8, <1>9, <1>10, <1>11, <1>12 DEF Job!Next

\* The invariant holds throughout.
LEMMA JobInvariant == JobAssumptions /\ Job!Spec => []JobInv
  <1> SUFFICES ASSUME JobAssumptions PROVE Job!Spec => []JobInv
    OBVIOUS
  <1>1. JobInv /\ [Job!Next]_(Job!vars) => JobInv'
    BY JobTypes, PlaceStep, SlotStep DEF JobInv
  <1>2. QED
    BY <1>1, JobInit, PTL DEF Job!Spec

\* What the run checks of the jobs follows from the invariant.
LEMMA Honest == JobAssumptions /\ JobInv => SlotsAreHonest
  <1> SUFFICES ASSUME JobAssumptions, JobInv, excused = {}
               PROVE  Cardinality(Job!UnderWay) <= Tier
    BY JobCounting DEF SlotsAreHonest, JobInv, Job!LimitKept
  <1>1. Job!UnderWay \subseteq Owners
    BY DEF Job!UnderWay, JobInv, ExactInv, SlotInv, Owners
  <1>2. IsFiniteSet(Owners) /\ Cardinality(Owners) \in Nat /\ Cardinality(Owners) <= Tier
    BY OwnersAreFinite DEF JobInv, ExactInv
  <1>3. QED
    BY <1>1, <1>2, FS_Subset, FS_CardinalityType DEF JobAssumptions

(***************************************************************************)
(* Referrals                                                               *)
(***************************************************************************)

\* The cardinality of the instance is that of the library.
LEMMA ReferralCounting == \A S : Referral!Cardinality(S) = Cardinality(S)
  BY DEF Cardinality, Referral!Cardinality

\* Where a request has no reward yet, where none of its discount, and where its
\* conversion has been counted.
Unrewarded == {"idle", "inserting", "counting", "updating", "succeeding", "checking",
               "month"}
Undiscounted == Unrewarded \union {"extending", "granting", "discount"}
Awarding == {"checking", "month", "extending", "granting", "discount", "couponing",
             "paying"}

\* The types, the counters apart.
ReferralSorted ==
    /\ event \in [Tracks -> Referral!RowEvents]
    /\ trackAt \in [Tracks -> Referral!Places]
    /\ noticed \in [Tracks -> SUBSET Referral!RowEvents]
    /\ events \subseteq Referral!RowEvents
    /\ total \in Nat /\ successful \in Nat /\ paid \in Nat
    /\ creator \subseteq Tracks /\ months \subseteq Tracks /\ discounts \subseteq Tracks
    /\ granted \subseteq Tracks /\ extended \subseteq Tracks
    /\ reply \in [Tracks -> {"none", "tracked", "error"}]
ReferralFlags == exists \in BOOLEAN /\ doubled \in BOOLEAN

\* One request creates the row, and counts it at the end or fails.
CreatorInv ==
    /\ exists <=> creator # {}
    /\ \A s, t \in creator : s = t
    /\ ~exists => events = {}
    /\ total \in {0, 1} /\ (total = 1 => exists)
    /\ \A t \in Tracks : trackAt[t] = "counting" => t \in creator /\ total = 0
    /\ \A t \in Tracks : trackAt[t] = "updating" => exists
    /\ exists /\ total = 0 =>
          \E t \in creator : trackAt[t] = "counting" \/ reply[t] = "error"

\* What a request that has come to a place has done.
TrackInv(t) ==
    /\ reply[t] # "none" => trackAt[t] = "over"
    /\ reply[t] = "tracked" => event[t] \in events \/ t \in creator
    /\ trackAt[t] \in Awarding \union {"succeeding"} =>
          event[t] = "conversion" /\ "conversion" \in events
    /\ trackAt[t] \in Unrewarded => t \notin months
    /\ trackAt[t] \in Undiscounted => t \notin discounts
    /\ trackAt[t] \in {"extending", "granting", "discount"} => t \in months
    /\ trackAt[t] = "granting" => t \in extended
    /\ trackAt[t] \in {"couponing", "paying"} => t \in discounts

\* While no two looked for rewards before either inserted one, one at a time is
\* about to insert the first.
MonthInv ==
    /\ months # {} => "conversion" \in events
    /\ granted \subseteq extended /\ extended \subseteq months /\ discounts \subseteq months
    /\ ~doubled =>
          /\ \A s, t \in months : s = t
          /\ \A s, t \in Tracks : trackAt[s] = "month" /\ trackAt[t] = "month" => s = t
          /\ \A t \in Tracks : trackAt[t] = "month" => months = {}

\* What was counted as successful or paid belongs to requests that came that far.
Awarded == months \union {t \in Tracks : trackAt[t] \in {"checking", "month"}}
Served == discounts \ {t \in Tracks : trackAt[t] \in {"couponing", "paying"}}
Past == {t \in Tracks : trackAt[t] \in Awarding \union {"over"}}
CountInv ==
    /\ Cardinality(Awarded) <= successful
    /\ successful <= Cardinality(Past)
    /\ paid <= Cardinality(Served)

ReferralInv ==
    /\ ReferralSorted /\ ReferralFlags /\ CreatorInv
    /\ \A t \in Tracks : TrackInv(t)
    /\ MonthInv /\ CountInv

\* Init establishes the invariant.
LEMMA ReferralInit == Referral!Init => ReferralInv
  <1> SUFFICES ASSUME Referral!Init PROVE ReferralInv
    OBVIOUS
  <1>1. ReferralSorted
    BY DEF Referral!Init, ReferralSorted, Referral!RowEvents, Referral!Places
  <1>2. ReferralFlags
    BY Zenon DEF Referral!Init, ReferralFlags
  <1>3. CreatorInv /\ MonthInv /\ \A t \in Tracks : TrackInv(t)
    BY DEF Referral!Init, CreatorInv, MonthInv, TrackInv, Awarding
  <1>4. Awarded = {} /\ Served = {} /\ Past = {}
    BY DEF Referral!Init, Awarded, Served, Past, Awarding
  <1>5. CountInv
    BY <1>4, FS_EmptySet DEF Referral!Init, CountInv
  <1>6. QED
    BY <1>1, <1>2, <1>3, <1>5 DEF ReferralInv

\* A step keeps the types.
LEMMA ReferralTypes ==
    ASSUME ReferralSorted, [Referral!Next]_(Referral!vars) PROVE ReferralSorted'
  <1> USE DEF ReferralSorted, Referral!Places, Referral!RowEvents, Referral!Go,
          Referral!Answer, Referral!counters, Referral!rewarding
  <1>1. ASSUME NEW t \in Tracks, Referral!Look(t) \/ Referral!Insert(t)
        PROVE  ReferralSorted'
    <2>1. events' \subseteq Referral!RowEvents
      BY <1>1 DEF Referral!Look, Referral!Insert
    <2>2. QED
      BY <1>1, <2>1 DEF Referral!Look, Referral!Insert
  <1>2. ASSUME NEW t \in Tracks, Referral!Count(t) \/ Referral!Succeed(t)
        PROVE  ReferralSorted'
    <2>1. total' \in Nat /\ successful' \in Nat
      BY <1>2 DEF Referral!Count, Referral!Succeed
    <2>2. QED
      BY <1>2, <2>1 DEF Referral!Count, Referral!Succeed
  <1>3. ASSUME NEW t \in Tracks, Referral!Update(t) PROVE ReferralSorted'
    BY <1>3 DEF Referral!Update, Referral!RowAfter
  <1>4. ASSUME NEW t \in Tracks,
               \/ Referral!Fails(t) \/ Referral!CheckRewards(t) \/ Referral!Coupon(t)
               \/ Referral!AwardFails(t)
        PROVE  ReferralSorted'
    BY <1>4 DEF Referral!Fails, Referral!CheckRewards, Referral!Coupon,
       Referral!AwardFails
  <1>5. ASSUME NEW t \in Tracks,
               \/ Referral!InsertMonth(t) \/ Referral!Extend(t) \/ Referral!Grant(t)
               \/ Referral!InsertDiscount(t)
        PROVE  ReferralSorted'
    BY <1>5 DEF Referral!InsertMonth, Referral!Extend, Referral!Grant,
       Referral!InsertDiscount
  <1>6. ASSUME NEW t \in Tracks, Referral!Pay(t) PROVE ReferralSorted'
    BY <1>6 DEF Referral!Pay
  <1>7. CASE UNCHANGED Referral!vars
    BY <1>7 DEF Referral!vars
  <1>8. QED
    BY <1>1, <1>2, <1>3, <1>4, <1>5, <1>6, <1>7 DEF Referral!Next

\* The flags stay flags.
LEMMA ReferralBits ==
    ASSUME ReferralFlags, [Referral!Next]_(Referral!vars) PROVE ReferralFlags'
  <1>1. exists' \in BOOLEAN
    <2>1. exists' = exists \/ exists' = TRUE
      BY DEF Referral!Next, Referral!Look, Referral!Insert, Referral!Count,
         Referral!Update, Referral!Succeed, Referral!Fails, Referral!CheckRewards,
         Referral!InsertMonth, Referral!Extend, Referral!Grant, Referral!InsertDiscount,
         Referral!Coupon, Referral!Pay, Referral!AwardFails, Referral!vars
    <2>2. QED
      BY <2>1, Zenon DEF ReferralFlags
  <1>2. doubled' \in BOOLEAN
    <2>1. CASE \E t \in Tracks : Referral!CheckRewards(t)
      BY <2>1, Zenon DEF Referral!CheckRewards
    <2>2. CASE doubled' = doubled
      BY <2>2, Zenon DEF ReferralFlags
    <2>3. QED
      BY <2>1, <2>2 DEF Referral!Next, Referral!Look, Referral!Insert, Referral!Count,
         Referral!Update, Referral!Succeed, Referral!Fails, Referral!InsertMonth,
         Referral!Extend, Referral!Grant, Referral!InsertDiscount, Referral!Coupon,
         Referral!Pay, Referral!AwardFails, Referral!vars, Referral!rewarding
  <1>3. QED
    BY <1>1, <1>2 DEF ReferralFlags

\* A step keeps what is known of the row and of its creator.
LEMMA CreatorStep ==
    ASSUME ReferralInv, [Referral!Next]_(Referral!vars) PROVE CreatorInv'
  <1> USE DEF ReferralInv, ReferralSorted, CreatorInv, TrackInv, Referral!Go,
          Referral!Answer, Referral!counters, Referral!rewarding
  <1>1. ASSUME NEW t \in Tracks, Referral!Look(t) PROVE CreatorInv'
    BY <1>1 DEF Referral!Look
  <1>2. ASSUME NEW t \in Tracks, Referral!Insert(t) PROVE CreatorInv'
    BY <1>2 DEF Referral!Insert
  <1>3. ASSUME NEW t \in Tracks, Referral!Count(t) PROVE CreatorInv'
    BY <1>3 DEF Referral!Count
  <1>4. ASSUME NEW t \in Tracks,
               Referral!Update(t) \/ Referral!Succeed(t) \/ Referral!Fails(t)
        PROVE  CreatorInv'
    BY <1>4 DEF Referral!Update, Referral!Succeed, Referral!Fails
  <1>5. ASSUME NEW t \in Tracks,
               \/ Referral!CheckRewards(t) \/ Referral!InsertMonth(t) \/ Referral!Extend(t)
               \/ Referral!Grant(t) \/ Referral!InsertDiscount(t) \/ Referral!Coupon(t)
               \/ Referral!Pay(t) \/ Referral!AwardFails(t)
        PROVE  CreatorInv'
    <2>1. /\ UNCHANGED <<exists, events, creator, total>>
          /\ trackAt[t] # "counting" /\ reply[t] # "error"
          /\ trackAt'[t] \notin {"counting", "updating"}
          /\ \A u \in Tracks \ {t} : trackAt'[u] = trackAt[u] /\ reply'[u] = reply[u]
      BY <1>5 DEF Referral!CheckRewards, Referral!InsertMonth, Referral!Extend,
         Referral!Grant, Referral!InsertDiscount, Referral!Coupon, Referral!Pay,
         Referral!AwardFails
    <2>2. QED
      BY <2>1
  <1>6. CASE UNCHANGED Referral!vars
    BY <1>6 DEF Referral!vars
  <1>7. QED
    BY <1>1, <1>2, <1>3, <1>4, <1>5, <1>6 DEF Referral!Next

\* A step keeps what is known of each request.
LEMMA TrackStep ==
    ASSUME ReferralInv, [Referral!Next]_(Referral!vars)
    PROVE  \A u \in Tracks : TrackInv(u)'
  <1> SUFFICES ASSUME NEW u \in Tracks PROVE TrackInv(u)'
    OBVIOUS
  <1> USE DEF ReferralInv, ReferralSorted, TrackInv, Unrewarded, Undiscounted, Awarding,
          Referral!Go, Referral!Answer, Referral!counters, Referral!rewarding
  <1>1. ASSUME NEW t \in Tracks, Referral!Look(t) PROVE TrackInv(u)'
    BY <1>1 DEF Referral!Look
  <1>2. ASSUME NEW t \in Tracks, Referral!Insert(t) PROVE TrackInv(u)'
    BY <1>2 DEF Referral!Insert, CreatorInv
  <1>3. ASSUME NEW t \in Tracks, Referral!Count(t) PROVE TrackInv(u)'
    BY <1>3 DEF Referral!Count, CreatorInv
  <1>4. ASSUME NEW t \in Tracks, Referral!Update(t) PROVE TrackInv(u)'
    BY <1>4 DEF Referral!Update, Referral!RowAfter
  <1>5. ASSUME NEW t \in Tracks, Referral!Succeed(t) PROVE TrackInv(u)'
    BY <1>5 DEF Referral!Succeed
  <1>6. ASSUME NEW t \in Tracks, Referral!Fails(t) PROVE TrackInv(u)'
    BY <1>6 DEF Referral!Fails
  <1>7. ASSUME NEW t \in Tracks, Referral!CheckRewards(t) PROVE TrackInv(u)'
    BY <1>7 DEF Referral!CheckRewards
  <1>8. ASSUME NEW t \in Tracks, Referral!InsertMonth(t) PROVE TrackInv(u)'
    BY <1>8 DEF Referral!InsertMonth
  <1>9. ASSUME NEW t \in Tracks, Referral!Extend(t) PROVE TrackInv(u)'
    BY <1>9 DEF Referral!Extend
  <1>10. ASSUME NEW t \in Tracks, Referral!Grant(t) PROVE TrackInv(u)'
    BY <1>10 DEF Referral!Grant
  <1>11. ASSUME NEW t \in Tracks, Referral!InsertDiscount(t) PROVE TrackInv(u)'
    BY <1>11 DEF Referral!InsertDiscount
  <1>12. ASSUME NEW t \in Tracks, Referral!Coupon(t) PROVE TrackInv(u)'
    BY <1>12 DEF Referral!Coupon
  <1>13. ASSUME NEW t \in Tracks, Referral!Pay(t) PROVE TrackInv(u)'
    BY <1>13 DEF Referral!Pay
  <1>14. ASSUME NEW t \in Tracks, Referral!AwardFails(t) PROVE TrackInv(u)'
    BY <1>14 DEF Referral!AwardFails
  <1>15. CASE UNCHANGED Referral!vars
    BY <1>15 DEF Referral!vars
  <1>16. QED
    BY <1>1, <1>2, <1>3, <1>4, <1>5, <1>6, <1>7, <1>8, <1>9, <1>10, <1>11, <1>12, <1>13,
       <1>14, <1>15 DEF Referral!Next

\* A step keeps what is known of the rewards.
LEMMA MonthStep ==
    ASSUME ReferralInv, [Referral!Next]_(Referral!vars) PROVE MonthInv'
  <1> USE DEF ReferralInv, ReferralSorted, TrackInv, MonthInv, Awarding, Referral!Go,
          Referral!Answer, Referral!counters, Referral!rewarding
  <1>1. ASSUME NEW t \in Tracks,
               \/ Referral!Look(t) \/ Referral!Insert(t) \/ Referral!Count(t)
               \/ Referral!Update(t) \/ Referral!Succeed(t) \/ Referral!Fails(t)
               \/ Referral!Coupon(t) \/ Referral!AwardFails(t)
        PROVE  MonthInv'
    <2>1. /\ UNCHANGED <<months, discounts, granted, extended, doubled>>
          /\ \A u \in Tracks : trackAt'[u] = "month" => trackAt[u] = "month"
          /\ "conversion" \in events => "conversion" \in events'
      BY <1>1 DEF Referral!Look, Referral!Insert, Referral!Count, Referral!Update,
         Referral!RowAfter, Referral!Succeed, Referral!Fails, Referral!Coupon,
         Referral!AwardFails, CreatorInv
    <2>2. QED
      BY <2>1
  <1>2. ASSUME NEW t \in Tracks, Referral!CheckRewards(t) PROVE MonthInv'
    <2>1. ~doubled' => /\ ~doubled
                       /\ \/ months \union discounts # {}
                          \/ \A u \in Tracks \ {t} : trackAt[u] # "month"
      BY <1>2, Zenon DEF Referral!CheckRewards, Referral!AlreadyRewarded
    <2>2. /\ UNCHANGED <<months, discounts, granted, extended, events>>
          /\ trackAt'[t] = "month" => months = {} /\ discounts = {}
          /\ trackAt' = [trackAt EXCEPT ![t] = trackAt'[t]]
      BY <1>2 DEF Referral!CheckRewards, Referral!AlreadyRewarded
    <2>3. QED
      BY <2>1, <2>2
  <1>3. ASSUME NEW t \in Tracks, Referral!InsertMonth(t) PROVE MonthInv'
    BY <1>3 DEF Referral!InsertMonth
  <1>4. ASSUME NEW t \in Tracks,
               \/ Referral!Extend(t) \/ Referral!Grant(t) \/ Referral!InsertDiscount(t)
               \/ Referral!Pay(t)
        PROVE  MonthInv'
    BY <1>4 DEF Referral!Extend, Referral!Grant, Referral!InsertDiscount, Referral!Pay
  <1>5. CASE UNCHANGED Referral!vars
    BY <1>5 DEF Referral!vars
  <1>6. QED
    BY <1>1, <1>2, <1>3, <1>4, <1>5 DEF Referral!Next

\* A step keeps what was counted.
LEMMA CountStep ==
    ASSUME IsFiniteSet(Tracks), ReferralInv, [Referral!Next]_(Referral!vars)
    PROVE  CountInv'
  <1>0. /\ Awarded \subseteq Tracks /\ Served \subseteq Tracks /\ Past \subseteq Tracks
        /\ Awarded' \subseteq Tracks /\ Served' \subseteq Tracks /\ Past' \subseteq Tracks
    BY ReferralTypes DEF ReferralInv, ReferralSorted, Awarded, Served, Past
  <1>a. /\ Cardinality(Awarded) \in Nat /\ Cardinality(Served) \in Nat
        /\ Cardinality(Past) \in Nat
        /\ Cardinality(Awarded') \in Nat /\ Cardinality(Served') \in Nat
        /\ Cardinality(Past') \in Nat
        /\ successful \in Nat /\ paid \in Nat
    BY <1>0, Sizes DEF ReferralInv, ReferralSorted
  <1>b. ASSUME Past \subseteq Past' PROVE Cardinality(Past) <= Cardinality(Past')
    BY <1>0, <1>b, LargerPart
  <1>c. ASSUME Awarded' \subseteq Awarded
        PROVE  Cardinality(Awarded') <= Cardinality(Awarded)
    BY <1>0, <1>c, LargerPart
  <1>d. ASSUME Served \subseteq Served' PROVE Cardinality(Served) <= Cardinality(Served')
    BY <1>0, <1>d, LargerPart
  <1>1. CASE /\ Past \subseteq Past' /\ Awarded' \subseteq Awarded
             /\ Served \subseteq Served' /\ UNCHANGED <<successful, paid>>
    BY <1>1, <1>a, <1>b, <1>c, <1>d DEF CountInv, ReferralInv
  <1> USE DEF ReferralInv, ReferralSorted, TrackInv, Awarding, Unrewarded, Undiscounted,
          Referral!Go, Referral!Answer, Referral!counters, Referral!rewarding
  <1>2. ASSUME NEW t \in Tracks,
               \/ Referral!Look(t) \/ Referral!Insert(t) \/ Referral!Count(t)
               \/ Referral!Update(t) \/ Referral!Fails(t)
        PROVE  CountInv'
    <2>1. /\ UNCHANGED <<successful, paid, months, discounts>>
          /\ trackAt[t] \in Awarding \union {"over"} => trackAt'[t] = "over"
          /\ trackAt'[t] \notin Awarding
          /\ \A u \in Tracks \ {t} : trackAt'[u] = trackAt[u]
      BY <1>2 DEF Referral!Look, Referral!Insert, Referral!Count, Referral!Update,
         Referral!Fails
    <2>2. QED
      BY <1>1, <2>1 DEF Past, Awarded, Served
  <1>3. ASSUME NEW t \in Tracks, Referral!Succeed(t) PROVE CountInv'
    <2>1. /\ successful' = successful + 1 /\ UNCHANGED <<paid, months, discounts>>
          /\ trackAt[t] = "succeeding" /\ trackAt' = [trackAt EXCEPT ![t] = "checking"]
      BY <1>3 DEF Referral!Succeed
    <2>2. /\ Past' = Past \union {t} /\ t \notin Past
          /\ Awarded' = Awarded \union {t} /\ t \notin Awarded
          /\ Served' = Served
      BY <2>1 DEF Past, Awarded, Served
    <2>3. /\ Cardinality(Past') = Cardinality(Past) + 1
          /\ Cardinality(Awarded') = Cardinality(Awarded) + 1
      BY <1>0, <2>2, OneMore
    <2>4. QED
      BY <1>a, <2>1, <2>2, <2>3 DEF CountInv
  <1>4. ASSUME NEW t \in Tracks,
               Referral!CheckRewards(t) \/ Referral!InsertMonth(t)
        PROVE  CountInv'
    <2>1. /\ UNCHANGED <<successful, paid, discounts>>
          /\ months' \subseteq months \union {t}
          /\ trackAt[t] \in {"checking", "month"}
          /\ trackAt'[t] \in {"over", "month", "extending"} /\ t \notin discounts
          /\ \A u \in Tracks \ {t} : trackAt'[u] = trackAt[u]
      BY <1>4 DEF Referral!CheckRewards, Referral!InsertMonth
    <2>2. QED
      BY <1>1, <2>1 DEF Past, Awarded, Served
  <1>5. ASSUME NEW t \in Tracks,
               \/ Referral!Extend(t) \/ Referral!Grant(t) \/ Referral!InsertDiscount(t)
               \/ Referral!Coupon(t) \/ Referral!AwardFails(t)
        PROVE  CountInv'
    <2>1. /\ UNCHANGED <<successful, paid, months>>
          /\ trackAt[t] \in Awarding
          /\ trackAt'[t] \in {"granting", "discount", "couponing", "paying", "over"}
          /\ discounts \subseteq discounts'
          /\ trackAt'[t] \in {"couponing", "paying"} => t \notin Served
          /\ \A u \in Tracks \ {t} : trackAt'[u] = trackAt[u]
      BY <1>5 DEF Referral!Extend, Referral!Grant, Referral!InsertDiscount,
         Referral!Coupon, Referral!AwardFails, Served
    <2>2. QED
      BY <1>1, <2>1 DEF Past, Awarded, Served
  <1>6. ASSUME NEW t \in Tracks, Referral!Pay(t) PROVE CountInv'
    <2>1. /\ paid' = paid + 1 /\ UNCHANGED <<successful, months, discounts>>
          /\ trackAt[t] = "paying" /\ t \in discounts
          /\ trackAt' = [trackAt EXCEPT ![t] = "over"]
      BY <1>6 DEF Referral!Pay
    <2>2. /\ Served' = Served \union {t} /\ t \notin Served
          /\ Past' = Past /\ Awarded' = Awarded
      BY <2>1 DEF Past, Awarded, Served
    <2>3. Cardinality(Served') = Cardinality(Served) + 1
      BY <1>0, <2>2, OneMore
    <2>4. QED
      BY <1>a, <2>1, <2>2, <2>3 DEF CountInv
  <1>7. CASE UNCHANGED Referral!vars
    BY <1>1, <1>7 DEF Referral!vars, Past, Awarded, Served
  <1>8. QED
    BY <1>2, <1>3, <1>4, <1>5, <1>6, <1>7 DEF Referral!Next

\* The invariant holds throughout.
LEMMA ReferralInvariant == IsFiniteSet(Tracks) /\ Referral!Spec => []ReferralInv
  <1> SUFFICES ASSUME IsFiniteSet(Tracks) PROVE Referral!Spec => []ReferralInv
    OBVIOUS
  <1>1. ReferralInv /\ [Referral!Next]_(Referral!vars) => ReferralInv'
    BY ReferralTypes, ReferralBits, CreatorStep, TrackStep, MonthStep, CountStep
       DEF ReferralInv
  <1>2. QED
    BY <1>1, ReferralInit, PTL DEF Referral!Spec

\* The types with their bounds, and what the run checks of the referrals, follow.
LEMMA Rewarded ==
    ASSUME IsFiniteSet(Tracks), ReferralInv
    PROVE  /\ Referral!TypeOK /\ Referral!ReferredOnce /\ Referral!TrackedIsKept
           /\ Referral!RewardedOnceEach
  <1>1. /\ Served \subseteq discounts /\ discounts \subseteq Tracks
        /\ months \subseteq Awarded
        /\ Awarded \subseteq Tracks /\ Past \subseteq Tracks /\ creator \subseteq Tracks
    BY DEF Served, Awarded, Past, ReferralInv, ReferralSorted
  <1>2. /\ Cardinality(Served) <= Cardinality(discounts)
        /\ Cardinality(months) <= Cardinality(Awarded)
        /\ Cardinality(Served) \in Nat /\ Cardinality(discounts) \in Nat
        /\ Cardinality(months) \in Nat /\ Cardinality(Awarded) \in Nat
    BY <1>1, LargerPart
  <1>3. /\ Cardinality(Past) <= Cardinality(Tracks) /\ Cardinality(Past) \in Nat
        /\ Cardinality(discounts) <= Cardinality(Tracks) /\ Cardinality(Tracks) \in Nat
        /\ Cardinality(creator) <= Cardinality(Tracks) /\ Cardinality(creator) \in Nat
    BY <1>1, Sizes
  <1>4. total = 1 => Cardinality(creator) >= 1
    <2>1. ASSUME total = 1 PROVE Cardinality(creator) # 0
      <3>1. creator # {} /\ IsFiniteSet(creator)
        BY <1>1, <2>1, Sizes DEF ReferralInv, CreatorInv
      <3>2. QED
        BY <3>1, FS_EmptySet
    <2>2. QED
      BY <1>3, <2>1
  <1>5. Referral!TypeOK
    <2>1. {total, successful, paid} \subseteq 0..Referral!Cardinality(Tracks)
      BY <1>2, <1>3, <1>4, ReferralCounting
         DEF ReferralInv, ReferralSorted, CountInv, CreatorInv
    <2>2. QED
      BY <2>1 DEF Referral!TypeOK, ReferralInv, ReferralSorted, ReferralFlags
  <1>6. Referral!ReferredOnce
    <2>1. Cardinality(creator) <= 1
      BY AtMostOne DEF ReferralInv, CreatorInv
    <2>2. QED
      BY <2>1, ReferralCounting DEF ReferralInv, CreatorInv, Referral!ReferredOnce
  <1>7. Referral!TrackedIsKept
    BY DEF ReferralInv, TrackInv, Referral!TrackedIsKept
  <1>8. Referral!RewardedOnceEach
    <2>1. ~doubled => Cardinality(months) <= 1
      BY AtMostOne DEF ReferralInv, MonthInv
    <2>2. paid <= Cardinality(discounts) /\ Cardinality(months) <= successful
      BY <1>2 DEF ReferralInv, ReferralSorted, CountInv
    <2>3. QED
      BY <1>2, <2>1, <2>2, ReferralCounting
         DEF ReferralInv, MonthInv, Referral!RewardedOnceEach
  <1>9. QED
    BY <1>5, <1>6, <1>7, <1>8

(***************************************************************************)
(* Commissions                                                             *)
(***************************************************************************)

\* The cardinality of the instance is that of the library.
LEMMA CommissionCounting == \A S : Commission!Cardinality(S) = Cardinality(S)
  BY DEF Cardinality, Commission!Cardinality

\* The types, those of the flags apart.
CommissionSorted ==
    /\ post \in [Posts -> Commission!Kinds]
    /\ postAt \in [Posts -> {"idle", "inserting", "signing", "paying", "cancelling",
                             "counting signup", "counting payment", "checking",
                             "recording", "adding", "summing", "over"}]
    /\ conversion \in {"none", "pending", "active", "cancelled"}
    /\ signups \in Nat /\ conversions \in Nat
    /\ affiliateTotal \in Nat /\ conversionTotal \in Nat
    /\ commissions \subseteq Posts /\ crossed \subseteq Commission!Kinds
    /\ response \in [Posts -> {"none", "ok", "refused", "error"}]
CommissionFlags == signup \in BOOLEAN /\ payment \in BOOLEAN

\* What a request at a place reports, and whether it has its commission.
PostInv(p) ==
    /\ postAt[p] \in {"signing", "counting signup"} => post[p] = "signup"
    /\ postAt[p] \in {"paying", "counting payment"} => post[p] = "first_payment"
    /\ postAt[p] \in {"signing", "paying"} => conversion # "none"
    /\ postAt[p] \in {"idle", "checking", "recording"} => p \notin commissions
    /\ postAt[p] \in {"adding", "summing"} => p \in commissions
    /\ p \in commissions => postAt[p] \in {"adding", "summing", "over"}
    /\ response[p] = "error" => postAt[p] = "over"

\* An event is counted once, unless two requests were about to set its time at once:
\* one sets it, one counts it, and nobody comes to set it again.
OnceInv(done, number, setting, counting) ==
    /\ \A p, q \in Posts : postAt[p] = setting /\ postAt[q] = setting => p = q
    /\ \A p, q \in Posts : postAt[p] = counting /\ postAt[q] = counting => p = q
    /\ \A p \in Posts : postAt[p] = setting => ~done
    /\ \A p \in Posts : postAt[p] = counting => done /\ number = 0
    /\ number \in {0, 1} /\ (number = 1 => done)
SignupInv ==
    /\ "signup" \notin crossed => OnceInv(signup, signups, "signing", "counting signup")
    /\ conversion = "none" => ~signup
    /\ signup /\ signups = 0 =>
          \E p \in Posts : /\ post[p] = "signup"
                           /\ postAt[p] = "counting signup" \/ response[p] = "error"
PaymentInv ==
    /\ "first_payment" \notin crossed =>
          OnceInv(payment, conversions, "paying", "counting payment")
    /\ payment /\ conversions = 0 =>
          \E p \in Posts : /\ post[p] = "first_payment"
                           /\ postAt[p] = "counting payment" \/ response[p] = "error"

\* A month is paid for once, unless two requests were about to record it at once.
PeriodInv ==
    /\ \A p \in Posts : postAt[p] = "recording" =>
          \/ post[p] \in crossed
          \/ \A q \in Posts \ {p} : post[q] = post[p] =>
                postAt[q] # "recording" /\ q \notin commissions
    /\ \A p, q \in commissions : post[p] = post[q] => p = q \/ post[p] \in crossed

\* The commissions that were added to one total and to both.
Added == {p \in commissions : postAt[p] # "adding"}
Summed == {p \in commissions : postAt[p] \notin {"adding", "summing"}}
Summing == {p \in Posts : postAt[p] = "summing"}
Spoilt == \E p \in commissions : response[p] = "error"
TotalInv ==
    /\ affiliateTotal <= Cardinality(Added)
    /\ conversionTotal + Cardinality(Summing) <= affiliateTotal
    /\ Spoilt \/ affiliateTotal = Cardinality(Added)
    /\ Spoilt \/ conversionTotal = Cardinality(Summed)

CommissionInv ==
    /\ CommissionSorted /\ CommissionFlags
    /\ \A p \in Posts : PostInv(p)
    /\ SignupInv /\ PaymentInv /\ PeriodInv /\ TotalInv

\* Init establishes the invariant.
LEMMA CommissionInit == Commission!Init => CommissionInv
  <1> SUFFICES ASSUME Commission!Init PROVE CommissionInv
    OBVIOUS
  <1>1. CommissionSorted
    BY DEF Commission!Init, CommissionSorted, Commission!Kinds
  <1>2. CommissionFlags
    BY Zenon DEF Commission!Init, CommissionFlags
  <1>3. SignupInv /\ PaymentInv /\ PeriodInv /\ \A p \in Posts : PostInv(p)
    BY DEF Commission!Init, SignupInv, PaymentInv, PeriodInv, PostInv, OnceInv
  <1>4. Added = {} /\ Summed = {} /\ Summing = {}
    BY DEF Commission!Init, Added, Summed, Summing
  <1>5. TotalInv
    BY <1>4, FS_EmptySet DEF Commission!Init, TotalInv
  <1>6. QED
    BY <1>1, <1>2, <1>3, <1>5 DEF CommissionInv

\* What crosses has crossed from then on, and only kinds cross.
LEMMA CrossingGrows ==
    ASSUME CommissionSorted, NEW p \in Posts, NEW place
    PROVE  crossed \subseteq Commission!Crossing(p, place)
              /\ Commission!Crossing(p, place) \subseteq Commission!Kinds
  BY DEF Commission!Crossing, CommissionSorted

\* Counting one more is counting.
LEMMA Successor == (\A n \in Nat : n + 1 \in Nat /\ n + 1 # 0) /\ 0 + 1 = 1
  OBVIOUS

\* A step keeps the types.
LEMMA CommissionTypes ==
    ASSUME CommissionSorted, [Commission!Next]_(Commission!vars)
    PROVE  CommissionSorted'
  <1> USE DEF CommissionSorted, Commission!Go, Commission!Answer, Commission!row,
          Commission!totals
  <1>1. ASSUME NEW p \in Posts, Commission!LookEvent(p) PROVE CommissionSorted'
    <2>1. crossed' \subseteq Commission!Kinds
      BY <1>1, CrossingGrows DEF Commission!LookEvent
    <2>2. /\ postAt' \in [Posts -> {"idle", "inserting", "signing", "paying", "cancelling",
                                    "counting signup", "counting payment", "checking",
                                    "recording", "adding", "summing", "over"}]
          /\ response' \in [Posts -> {"none", "ok", "refused", "error"}]
      BY <1>1 DEF Commission!LookEvent
    <2>3. QED
      BY <1>1, <2>1, <2>2 DEF Commission!LookEvent
  <1>2. ASSUME NEW p \in Posts, Commission!CheckPeriod(p) PROVE CommissionSorted'
    BY <1>2, CrossingGrows DEF Commission!CheckPeriod
  <1>3. ASSUME NEW p \in Posts,
               \/ Commission!InsertRow(p) \/ Commission!SetSignup(p)
               \/ Commission!SetPayment(p) \/ Commission!Cancel(p)
        PROVE  CommissionSorted'
    BY <1>3 DEF Commission!InsertRow, Commission!SetSignup, Commission!SetPayment,
       Commission!Cancel
  <1>4. ASSUME NEW p \in Posts, Commission!CountSignup(p) PROVE CommissionSorted'
    <2>1. signups' = signups + 1
      BY <1>4, Zenon DEF Commission!CountSignup
    <2>2. signups \in Nat
      BY Zenon
    <2>3. signups' \in Nat
      BY <2>1, <2>2, Successor
    <2>4. /\ postAt' \in [Posts -> {"idle", "inserting", "signing", "paying", "cancelling",
                                    "counting signup", "counting payment", "checking",
                                    "recording", "adding", "summing", "over"}]
          /\ response' \in [Posts -> {"none", "ok", "refused", "error"}]
      BY <1>4 DEF Commission!CountSignup
    <2>5. QED
      BY <1>4, <2>3, <2>4 DEF Commission!CountSignup
  <1>5. ASSUME NEW p \in Posts, Commission!CountPayment(p) PROVE CommissionSorted'
    <2>1. conversions' = conversions + 1
      BY <1>5, Zenon DEF Commission!CountPayment
    <2>2. conversions \in Nat
      BY Zenon
    <2>3. conversions' \in Nat
      BY <2>1, <2>2, Successor
    <2>4. /\ postAt' \in [Posts -> {"idle", "inserting", "signing", "paying", "cancelling",
                                    "counting signup", "counting payment", "checking",
                                    "recording", "adding", "summing", "over"}]
          /\ response' \in [Posts -> {"none", "ok", "refused", "error"}]
      BY <1>5 DEF Commission!CountPayment
    <2>5. QED
      BY <1>5, <2>3, <2>4 DEF Commission!CountPayment
  <1>6. ASSUME NEW p \in Posts,
               Commission!LookStatus(p) \/ Commission!Fails(p) \/ Commission!Record(p)
        PROVE  CommissionSorted'
    BY <1>6 DEF Commission!LookStatus, Commission!Fails, Commission!Record
  <1>7. ASSUME NEW p \in Posts, Commission!AddToAffiliate(p) PROVE CommissionSorted'
    <2>1. affiliateTotal' = affiliateTotal + 1
      BY <1>7, Zenon DEF Commission!AddToAffiliate
    <2>2. affiliateTotal \in Nat
      BY Zenon
    <2>3. affiliateTotal' \in Nat
      BY <2>1, <2>2, Successor
    <2>4. /\ postAt' \in [Posts -> {"idle", "inserting", "signing", "paying", "cancelling",
                                    "counting signup", "counting payment", "checking",
                                    "recording", "adding", "summing", "over"}]
          /\ response' \in [Posts -> {"none", "ok", "refused", "error"}]
      BY <1>7 DEF Commission!AddToAffiliate
    <2>5. QED
      BY <1>7, <2>3, <2>4 DEF Commission!AddToAffiliate
  <1>8. ASSUME NEW p \in Posts, Commission!AddToConversion(p) PROVE CommissionSorted'
    <2>1. conversionTotal' = conversionTotal + 1
      BY <1>8, Zenon DEF Commission!AddToConversion
    <2>2. conversionTotal \in Nat
      BY Zenon
    <2>3. conversionTotal' \in Nat
      BY <2>1, <2>2, Successor
    <2>4. /\ postAt' \in [Posts -> {"idle", "inserting", "signing", "paying", "cancelling",
                                    "counting signup", "counting payment", "checking",
                                    "recording", "adding", "summing", "over"}]
          /\ response' \in [Posts -> {"none", "ok", "refused", "error"}]
      BY <1>8 DEF Commission!AddToConversion
    <2>5. QED
      BY <1>8, <2>3, <2>4 DEF Commission!AddToConversion
  <1>9. CASE UNCHANGED Commission!vars
    BY <1>9 DEF Commission!vars
  <1>10. QED
    BY <1>1, <1>2, <1>3, <1>4, <1>5, <1>6, <1>7, <1>8, <1>9 DEF Commission!Next

\* Which steps write the row: the others leave it as it is.
LEMMA RowWrites ==
    ASSUME [Commission!Next]_(Commission!vars)
    PROVE  \/ UNCHANGED <<conversion, signup, payment>>
           \/ \E p \in Posts : \/ Commission!InsertRow(p) \/ Commission!SetSignup(p)
                               \/ Commission!SetPayment(p) \/ Commission!Cancel(p)
  BY DEF Commission!Next, Commission!LookEvent, Commission!CountSignup,
     Commission!CountPayment, Commission!LookStatus, Commission!CheckPeriod,
     Commission!Record, Commission!AddToAffiliate, Commission!AddToConversion,
     Commission!Fails, Commission!vars, Commission!row

\* The flags stay flags.
LEMMA CommissionBits ==
    ASSUME CommissionFlags, [Commission!Next]_(Commission!vars) PROVE CommissionFlags'
  <1>1. CASE UNCHANGED <<conversion, signup, payment>>
    BY <1>1 DEF CommissionFlags
  <1>2. ASSUME NEW p \in Posts, Commission!InsertRow(p) PROVE CommissionFlags'
    BY <1>2, Zenon DEF Commission!InsertRow, CommissionFlags
  <1>3. ASSUME NEW p \in Posts, Commission!SetSignup(p) PROVE CommissionFlags'
    BY <1>3, Zenon DEF Commission!SetSignup, CommissionFlags
  <1>4. ASSUME NEW p \in Posts, Commission!SetPayment(p) PROVE CommissionFlags'
    BY <1>4, Zenon DEF Commission!SetPayment, CommissionFlags
  <1>5. ASSUME NEW p \in Posts, Commission!Cancel(p) PROVE CommissionFlags'
    BY <1>5, Zenon DEF Commission!Cancel, CommissionFlags
  <1>6. QED
    BY <1>1, <1>2, <1>3, <1>4, <1>5, RowWrites

\* A step keeps what is known of each request.
LEMMA PostStep ==
    ASSUME CommissionInv, [Commission!Next]_(Commission!vars)
    PROVE  \A q \in Posts : PostInv(q)'
  <1> SUFFICES ASSUME NEW q \in Posts PROVE PostInv(q)'
    OBVIOUS
  <1> USE DEF CommissionInv, CommissionSorted, PostInv, Commission!Go, Commission!Answer,
          Commission!row, Commission!totals
  <1>1. ASSUME NEW p \in Posts, Commission!LookEvent(p) PROVE PostInv(q)'
    BY <1>1 DEF Commission!LookEvent
  <1>2. ASSUME NEW p \in Posts,
               \/ Commission!InsertRow(p) \/ Commission!SetSignup(p)
               \/ Commission!SetPayment(p) \/ Commission!Cancel(p)
        PROVE  PostInv(q)'
    BY <1>2 DEF Commission!InsertRow, Commission!SetSignup, Commission!SetPayment,
       Commission!Cancel
  <1>3. ASSUME NEW p \in Posts,
               \/ Commission!CountSignup(p) \/ Commission!CountPayment(p)
               \/ Commission!LookStatus(p) \/ Commission!CheckPeriod(p)
        PROVE  PostInv(q)'
    BY <1>3 DEF Commission!CountSignup, Commission!CountPayment, Commission!LookStatus,
       Commission!CheckPeriod
  <1>4. ASSUME NEW p \in Posts,
               \/ Commission!Record(p) \/ Commission!AddToAffiliate(p)
               \/ Commission!AddToConversion(p) \/ Commission!Fails(p)
        PROVE  PostInv(q)'
    BY <1>4 DEF Commission!Record, Commission!AddToAffiliate, Commission!AddToConversion,
       Commission!Fails
  <1>5. CASE UNCHANGED Commission!vars
    BY <1>5 DEF Commission!vars
  <1>6. QED
    BY <1>1, <1>2, <1>3, <1>4, <1>5 DEF Commission!Next

\* A step keeps what is known of the signup.
LEMMA SignupStep ==
    ASSUME CommissionInv, [Commission!Next]_(Commission!vars) PROVE SignupInv'
  <1>0. /\ SignupInv /\ signups \in Nat
        /\ \A p \in Posts : postAt[p] \in {"signing", "counting signup"} =>
              post[p] = "signup"
    BY DEF CommissionInv, CommissionSorted, PostInv
  <1>1. ASSUME NEW p \in Posts, Commission!LookEvent(p) PROVE SignupInv'
    <2>1. /\ crossed \subseteq crossed'
          /\ UNCHANGED <<post, conversion, signup, signups>>
          /\ \A q \in Posts :
                postAt'[q] = "counting signup" <=> postAt[q] = "counting signup"
          /\ \A q \in Posts : response[q] = "error" <=> response'[q] = "error"
          /\ \A q \in Posts \ {p} : postAt'[q] = postAt[q]
      BY <1>1, CrossingGrows DEF Commission!LookEvent, CommissionInv, CommissionSorted,
         PostInv, Commission!Go, Commission!Answer, Commission!row, Commission!totals
    <2>2. postAt'[p] = "signing" =>
             /\ ~signup
             /\ "signup" \notin crossed' => \A q \in Posts \ {p} : postAt[q] # "signing"
      BY <1>1 DEF Commission!LookEvent, Commission!Crossing, CommissionInv,
         CommissionSorted, PostInv, Commission!Go, Commission!Answer,
         Commission!row, Commission!totals
    <2>3. QED
      BY <1>0, <2>1, <2>2 DEF SignupInv, OnceInv
  <1>2. ASSUME NEW p \in Posts, Commission!InsertRow(p) PROVE SignupInv'
    <2>1. /\ conversion = "none" /\ conversion' = "pending"
          /\ UNCHANGED <<post, signups, crossed>>
          /\ signup' = (post[p] = "signup") /\ postAt[p] = "inserting"
          /\ \/ /\ post[p] = "signup" /\ postAt' = [postAt EXCEPT ![p] = "counting signup"]
                /\ UNCHANGED response
             \/ /\ post[p] # "signup" /\ postAt' = [postAt EXCEPT ![p] = "over"]
                /\ response' = [response EXCEPT ![p] = "ok"]
      BY <1>2 DEF Commission!InsertRow, Commission!Go, Commission!Answer
    <2>2. \A q \in Posts : postAt[q] # "signing"
      BY <2>1 DEF CommissionInv, PostInv
    <2>3. /\ \A q \in Posts : postAt'[q] # "signing"
          /\ postAt'[p] = "counting signup" <=> post[p] = "signup"
          /\ \A q \in Posts \ {p} : postAt'[q] = postAt[q]
      BY <2>1, <2>2 DEF CommissionInv, CommissionSorted
    <2>4. SignupInv /\ ~signup
      BY <1>0, <2>1 DEF SignupInv
    <2>5. ASSUME "signup" \notin crossed'
          PROVE  OnceInv(signup, signups, "signing", "counting signup")'
      <3>1. \A q \in Posts : postAt[q] # "counting signup"
        BY <2>1, <2>4, <2>5 DEF SignupInv, OnceInv
      <3>2. signups = 0
        BY <2>1, <2>4, <2>5 DEF SignupInv, OnceInv
      <3>3. signups' = 0
        BY <2>1, <3>2, Zenon
      <3>4. \A q \in Posts : postAt'[q] = "counting signup" => q = p /\ signup'
        BY <2>1, <2>3, <3>1
      <3>5. signups' = 0 /\ ~(signups' = 1)
        BY <3>3
      <3>6. QED
        BY <2>3, <3>4, <3>5 DEF OnceInv
    <2>6. QED
      BY <2>1, <2>3, <2>5 DEF SignupInv
  <1>3. ASSUME NEW p \in Posts, Commission!SetSignup(p) PROVE SignupInv'
    <2>1. /\ signup' = TRUE /\ UNCHANGED <<post, conversion, signups, crossed, response>>
          /\ postAt[p] = "signing" /\ postAt'[p] = "counting signup"
          /\ \A q \in Posts \ {p} : postAt'[q] = postAt[q]
      BY <1>3 DEF Commission!SetSignup, Commission!Go, CommissionInv, CommissionSorted
    <2>2. conversion # "none" /\ post[p] = "signup"
      BY <2>1 DEF CommissionInv, PostInv
    <2>3. ASSUME "signup" \notin crossed'
          PROVE  OnceInv(signup, signups, "signing", "counting signup")'
      <3>1. OnceInv(signup, signups, "signing", "counting signup")
        BY <1>0, <2>1, <2>3 DEF SignupInv
      <3>2. ~signup /\ signups = 0
        BY <1>0, <2>1, <3>1 DEF OnceInv
      <3>3. \A q \in Posts \ {p} :
               postAt'[q] # "signing" /\ postAt'[q] # "counting signup"
        BY <2>1, <3>1, <3>2 DEF OnceInv
      <3>4. QED
        BY <2>1, <3>2, <3>3 DEF OnceInv
    <2>4. QED
      BY <2>1, <2>2, <2>3 DEF SignupInv
  <1>4. ASSUME NEW p \in Posts, Commission!CountSignup(p) PROVE SignupInv'
    <2>1. /\ signups' = signups + 1 /\ UNCHANGED <<post, conversion, signup, crossed>>
          /\ postAt[p] = "counting signup" /\ postAt'[p] = "over"
          /\ \A q \in Posts \ {p} : postAt'[q] = postAt[q]
      BY <1>4 DEF Commission!CountSignup, Commission!Answer, Commission!row, CommissionInv,
         CommissionSorted
    <2>2. signups' = signups + 1 /\ signups \in Nat
      BY <1>0, <2>1, Zenon
    <2>3. signups' # 0
      BY <2>2, Zenon, Successor
    <2>4. ASSUME "signup" \notin crossed'
          PROVE  OnceInv(signup, signups, "signing", "counting signup")'
      <3>1. OnceInv(signup, signups, "signing", "counting signup")
        BY <1>0, <2>1, <2>4 DEF SignupInv
      <3>2. signup /\ signups = 0
        BY <2>1, <3>1, Zenon DEF OnceInv
      <3>3. signup' /\ signups' = 1
        BY <2>1, <2>2, <3>2, Successor, Zenon
      <3>4. \A q \in Posts : postAt'[q] # "signing" /\ postAt'[q] # "counting signup"
        BY <2>1, <3>1, <3>2 DEF OnceInv
      <3>5. QED
        BY <3>3, <3>4 DEF OnceInv
    <2>5. conversion' = "none" => ~signup'
      BY <1>0, <2>1, Zenon DEF SignupInv
    <2>6. QED
      BY <2>3, <2>4, <2>5, Zenon DEF SignupInv
  \* The other steps leave what it is about.
  <1>5. CASE /\ crossed \subseteq crossed' /\ UNCHANGED <<post, signup, signups>>
             /\ conversion' = "none" => conversion = "none"
             /\ \A q \in Posts : postAt'[q] = "signing" => postAt[q] = "signing"
             /\ \A q \in Posts : /\ postAt'[q] = "counting signup" =>
                                       postAt[q] = "counting signup"
                                 /\ postAt[q] = "counting signup" =>
                                       \/ postAt'[q] = "counting signup"
                                       \/ response'[q] = "error"
                                 /\ response[q] = "error" => response'[q] = "error"
    BY <1>0, <1>5 DEF SignupInv, OnceInv
  <1>6. ASSUME NEW p \in Posts,
               \/ Commission!SetPayment(p) \/ Commission!Cancel(p)
               \/ Commission!CountPayment(p) \/ Commission!LookStatus(p)
               \/ Commission!Record(p) \/ Commission!AddToAffiliate(p)
               \/ Commission!AddToConversion(p) \/ Commission!Fails(p)
        PROVE  SignupInv'
    BY <1>5, <1>6 DEF Commission!SetPayment, Commission!Cancel, Commission!CountPayment,
       Commission!LookStatus, Commission!Record, Commission!AddToAffiliate,
       Commission!AddToConversion, Commission!Fails, CommissionInv, CommissionSorted,
       PostInv, Commission!Go, Commission!Answer, Commission!row, Commission!totals
  <1>7. ASSUME NEW p \in Posts, Commission!CheckPeriod(p) PROVE SignupInv'
    BY <1>5, <1>7, CrossingGrows DEF Commission!CheckPeriod, CommissionInv,
       CommissionSorted, PostInv, Commission!Go, Commission!Answer,
       Commission!row, Commission!totals
  <1>8. CASE UNCHANGED Commission!vars
    BY <1>5, <1>8 DEF Commission!vars
  <1>9. QED
    BY <1>1, <1>2, <1>3, <1>4, <1>6, <1>7, <1>8 DEF Commission!Next

\* A step keeps what is known of the first payment.
LEMMA PaymentStep ==
    ASSUME CommissionInv, [Commission!Next]_(Commission!vars) PROVE PaymentInv'
  <1>0. /\ PaymentInv /\ conversions \in Nat
        /\ \A p \in Posts : postAt[p] \in {"paying", "counting payment"} =>
              post[p] = "first_payment"
    BY DEF CommissionInv, CommissionSorted, PostInv
  <1>1. ASSUME NEW p \in Posts, Commission!LookEvent(p) PROVE PaymentInv'
    <2>1. /\ crossed \subseteq crossed'
          /\ UNCHANGED <<post, payment, conversions>>
          /\ \A q \in Posts :
                postAt'[q] = "counting payment" <=> postAt[q] = "counting payment"
          /\ \A q \in Posts : response[q] = "error" <=> response'[q] = "error"
          /\ \A q \in Posts \ {p} : postAt'[q] = postAt[q]
      BY <1>1, CrossingGrows DEF Commission!LookEvent, CommissionInv, CommissionSorted,
         PostInv, Commission!Go, Commission!Answer, Commission!row, Commission!totals
    <2>2. postAt'[p] = "paying" =>
             /\ ~payment
             /\ "first_payment" \notin crossed' =>
                   \A q \in Posts \ {p} : postAt[q] # "paying"
      BY <1>1 DEF Commission!LookEvent, Commission!Crossing, CommissionInv,
         CommissionSorted, PostInv, Commission!Go, Commission!Answer,
         Commission!row, Commission!totals
    <2>3. QED
      BY <1>0, <2>1, <2>2 DEF PaymentInv, OnceInv
  <1>2. ASSUME NEW p \in Posts, Commission!SetPayment(p) PROVE PaymentInv'
    <2>1. /\ payment' = TRUE /\ UNCHANGED <<post, conversions, crossed, response>>
          /\ postAt[p] = "paying" /\ postAt'[p] = "counting payment"
          /\ \A q \in Posts \ {p} : postAt'[q] = postAt[q]
      BY <1>2 DEF Commission!SetPayment, Commission!Go, CommissionInv, CommissionSorted
    <2>2. ASSUME "first_payment" \notin crossed'
          PROVE  OnceInv(payment, conversions, "paying", "counting payment")'
      <3>1. OnceInv(payment, conversions, "paying", "counting payment")
        BY <1>0, <2>1, <2>2 DEF PaymentInv
      <3>2. ~payment /\ conversions = 0
        BY <1>0, <2>1, <3>1 DEF OnceInv
      <3>3. \A q \in Posts \ {p} :
               postAt'[q] # "paying" /\ postAt'[q] # "counting payment"
        BY <2>1, <3>1, <3>2 DEF OnceInv
      <3>4. QED
        BY <2>1, <3>2, <3>3 DEF OnceInv
    <2>3. QED
      BY <1>0, <2>1, <2>2 DEF PaymentInv
  <1>3. ASSUME NEW p \in Posts, Commission!CountPayment(p) PROVE PaymentInv'
    <2>1. /\ conversions' = conversions + 1 /\ UNCHANGED <<post, payment, crossed>>
          /\ postAt[p] = "counting payment" /\ postAt'[p] = "over"
          /\ \A q \in Posts \ {p} : postAt'[q] = postAt[q]
      BY <1>3 DEF Commission!CountPayment, Commission!Answer, Commission!row, CommissionInv,
         CommissionSorted
    <2>2. conversions' = conversions + 1 /\ conversions \in Nat
      BY <1>0, <2>1, Zenon
    <2>3. conversions' # 0
      BY <2>2, Zenon, Successor
    <2>4. ASSUME "first_payment" \notin crossed'
          PROVE  OnceInv(payment, conversions, "paying", "counting payment")'
      <3>1. OnceInv(payment, conversions, "paying", "counting payment")
        BY <1>0, <2>1, <2>4 DEF PaymentInv
      <3>2. payment /\ conversions = 0
        BY <2>1, <3>1, Zenon DEF OnceInv
      <3>3. payment' /\ conversions' = 1
        BY <2>1, <2>2, <3>2, Successor, Zenon
      <3>4. \A q \in Posts : postAt'[q] # "paying" /\ postAt'[q] # "counting payment"
        BY <2>1, <3>1, <3>2 DEF OnceInv
      <3>5. QED
        BY <3>3, <3>4 DEF OnceInv
    <2>5. QED
      BY <2>1, <2>3, <2>4 DEF PaymentInv
  \* The other steps leave what it is about.
  <1>4. CASE /\ crossed \subseteq crossed' /\ UNCHANGED <<post, payment, conversions>>
             /\ \A q \in Posts : postAt'[q] = "paying" => postAt[q] = "paying"
             /\ \A q \in Posts : /\ postAt'[q] = "counting payment" =>
                                       postAt[q] = "counting payment"
                                 /\ postAt[q] = "counting payment" =>
                                       \/ postAt'[q] = "counting payment"
                                       \/ response'[q] = "error"
                                 /\ response[q] = "error" => response'[q] = "error"
    BY <1>0, <1>4 DEF PaymentInv, OnceInv
  <1>5. ASSUME NEW p \in Posts,
               \/ Commission!InsertRow(p) \/ Commission!SetSignup(p)
               \/ Commission!Cancel(p) \/ Commission!CountSignup(p)
               \/ Commission!LookStatus(p) \/ Commission!Record(p)
               \/ Commission!AddToAffiliate(p) \/ Commission!AddToConversion(p)
               \/ Commission!Fails(p)
        PROVE  PaymentInv'
    BY <1>4, <1>5 DEF Commission!InsertRow, Commission!SetSignup, Commission!Cancel,
       Commission!CountSignup, Commission!LookStatus, Commission!Record,
       Commission!AddToAffiliate, Commission!AddToConversion, Commission!Fails,
       CommissionInv, CommissionSorted, PostInv, Commission!Go, Commission!Answer,
       Commission!row, Commission!totals
  <1>6. ASSUME NEW p \in Posts, Commission!CheckPeriod(p) PROVE PaymentInv'
    BY <1>4, <1>6, CrossingGrows DEF Commission!CheckPeriod, CommissionInv,
       CommissionSorted, PostInv, Commission!Go, Commission!Answer,
       Commission!row, Commission!totals
  <1>7. CASE UNCHANGED Commission!vars
    BY <1>4, <1>7 DEF Commission!vars
  <1>8. QED
    BY <1>1, <1>2, <1>3, <1>5, <1>6, <1>7 DEF Commission!Next

\* A step keeps what is known of the months.
LEMMA PeriodStep ==
    ASSUME CommissionInv, [Commission!Next]_(Commission!vars) PROVE PeriodInv'
  <1>0. /\ PeriodInv /\ commissions \subseteq Posts
        /\ \A p \in Posts : postAt[p] = "recording" => p \notin commissions
    BY DEF CommissionInv, CommissionSorted, PostInv
  <1> USE DEF PeriodInv
  <1>1. ASSUME NEW p \in Posts, Commission!CheckPeriod(p) PROVE PeriodInv'
    <2>1. /\ crossed \subseteq crossed' /\ UNCHANGED <<post, commissions>>
          /\ \A q \in Posts \ {p} : postAt'[q] = postAt[q]
      BY <1>1, CrossingGrows DEF Commission!CheckPeriod, Commission!Go, Commission!Answer,
         Commission!totals, CommissionInv, CommissionSorted
    <2>2. postAt'[p] = "recording" =>
             /\ \A q \in commissions : post[q] # post[p]
             /\ \/ post[p] \in crossed'
                \/ \A q \in Posts \ {p} : post[q] = post[p] => postAt[q] # "recording"
      BY <1>1 DEF Commission!CheckPeriod, Commission!Recorded, Commission!Crossing,
         Commission!Answer, CommissionInv, CommissionSorted
    <2>3. QED
      BY <1>0, <2>1, <2>2
  <1>2. ASSUME NEW p \in Posts, Commission!Record(p) PROVE PeriodInv'
    <2>1. /\ postAt[p] = "recording" /\ commissions' = commissions \union {p}
          /\ postAt'[p] # "recording" /\ \A q \in Posts \ {p} : postAt'[q] = postAt[q]
          /\ UNCHANGED <<post, crossed>>
      BY <1>2 DEF Commission!Record, Commission!Go, CommissionInv, CommissionSorted
    <2>2. QED
      BY <1>0, <2>1
  <1>3. CASE /\ crossed \subseteq crossed' /\ UNCHANGED <<post, commissions>>
             /\ \A q \in Posts : postAt'[q] = "recording" => postAt[q] = "recording"
    BY <1>0, <1>3
  <1>4. ASSUME NEW p \in Posts, Commission!LookEvent(p) PROVE PeriodInv'
    <2>1. crossed \subseteq crossed' /\ UNCHANGED <<post, commissions>>
      BY <1>4, CrossingGrows DEF Commission!LookEvent, Commission!totals, CommissionInv
    <2>2. \A q \in Posts : postAt'[q] = "recording" => postAt[q] = "recording"
      BY <1>4 DEF Commission!LookEvent, Commission!Go, Commission!Answer, CommissionInv,
         CommissionSorted
    <2>3. QED
      BY <1>3, <2>1, <2>2
  <1>5. ASSUME NEW p \in Posts,
               \/ Commission!InsertRow(p) \/ Commission!SetSignup(p)
               \/ Commission!SetPayment(p) \/ Commission!Cancel(p)
               \/ Commission!CountSignup(p) \/ Commission!CountPayment(p)
               \/ Commission!LookStatus(p) \/ Commission!AddToAffiliate(p)
               \/ Commission!AddToConversion(p) \/ Commission!Fails(p)
        PROVE  PeriodInv'
    BY <1>3, <1>5 DEF Commission!InsertRow, Commission!SetSignup, Commission!SetPayment,
       Commission!Cancel, Commission!CountSignup, Commission!CountPayment,
       Commission!LookStatus, Commission!AddToAffiliate, Commission!AddToConversion,
       Commission!Fails, Commission!Go, Commission!Answer, Commission!totals,
       CommissionInv, CommissionSorted
  <1>6. CASE UNCHANGED Commission!vars
    BY <1>3, <1>6 DEF Commission!vars
  <1>7. QED
    BY <1>1, <1>2, <1>4, <1>5, <1>6 DEF Commission!Next

\* A step keeps what is known of the totals.
LEMMA TotalStep ==
    ASSUME IsFiniteSet(Posts), CommissionInv, [Commission!Next]_(Commission!vars)
    PROVE  TotalInv'
  <1>0. /\ Added \subseteq Posts /\ Summed \subseteq Posts /\ Summing \subseteq Posts
        /\ Added' \subseteq Posts /\ Summed' \subseteq Posts /\ Summing' \subseteq Posts
    BY CommissionTypes DEF CommissionInv, CommissionSorted, Added, Summed, Summing
  <1>a. /\ Cardinality(Added) \in Nat /\ Cardinality(Summed) \in Nat
        /\ Cardinality(Summing) \in Nat
        /\ Cardinality(Added') \in Nat /\ Cardinality(Summed') \in Nat
        /\ Cardinality(Summing') \in Nat
        /\ affiliateTotal \in Nat /\ conversionTotal \in Nat /\ TotalInv
    BY <1>0, Sizes DEF CommissionInv, CommissionSorted
  <1>1. CASE /\ UNCHANGED <<affiliateTotal, conversionTotal>>
             /\ Added' = Added /\ Summed' = Summed /\ Summing' = Summing
             /\ Spoilt => Spoilt'
    BY <1>a, <1>1 DEF TotalInv
  <1>2. ASSUME NEW p \in Posts, Commission!Record(p) PROVE TotalInv'
    <2>1. /\ commissions' = commissions \union {p} /\ UNCHANGED response
          /\ postAt[p] = "recording" /\ postAt' = [postAt EXCEPT ![p] = "adding"]
          /\ p \notin commissions /\ UNCHANGED <<affiliateTotal, conversionTotal>>
      BY <1>2 DEF Commission!Record, CommissionInv, CommissionSorted, PostInv,
         Commission!Go, Commission!Answer, Commission!row, Commission!totals
    <2>2. Added' = Added /\ Summed' = Summed /\ Summing' = Summing
      BY <2>1 DEF Added, Summed, Summing, CommissionInv, CommissionSorted
    <2>3. Spoilt => Spoilt'
      BY <2>1 DEF Spoilt, CommissionInv, CommissionSorted
    <2>4. QED
      BY <1>1, <2>1, <2>2, <2>3
  <1>3. ASSUME NEW p \in Posts, Commission!AddToAffiliate(p) PROVE TotalInv'
    <2>1. /\ affiliateTotal' = affiliateTotal + 1
          /\ postAt[p] = "adding" /\ postAt' = [postAt EXCEPT ![p] = "summing"]
          /\ p \in commissions /\ UNCHANGED <<commissions, response, conversionTotal>>
      BY <1>3 DEF Commission!AddToAffiliate, CommissionInv, CommissionSorted, PostInv,
         Commission!Go, Commission!Answer, Commission!row, Commission!totals
    <2>2. /\ Added' = Added \union {p} /\ p \notin Added
          /\ Summing' = Summing \union {p} /\ p \notin Summing
          /\ Summed' = Summed
      BY <2>1 DEF Added, Summed, Summing, CommissionInv, CommissionSorted
    <2>3. /\ Cardinality(Added') = Cardinality(Added) + 1
          /\ Cardinality(Summing') = Cardinality(Summing) + 1
      BY <1>0, <2>2, OneMore
    <2>4. Spoilt' <=> Spoilt
      BY <2>1 DEF Spoilt, CommissionInv, CommissionSorted
    <2>5. QED
      BY <1>a, <2>1, <2>2, <2>3, <2>4 DEF TotalInv
  <1>4. ASSUME NEW p \in Posts, Commission!AddToConversion(p) PROVE TotalInv'
    <2>1. /\ conversionTotal' = conversionTotal + 1
          /\ postAt[p] = "summing" /\ postAt' = [postAt EXCEPT ![p] = "over"]
          /\ response' = [response EXCEPT ![p] = "ok"] /\ response[p] # "error"
          /\ p \in commissions /\ UNCHANGED <<commissions, affiliateTotal>>
      BY <1>4 DEF Commission!AddToConversion, CommissionInv, CommissionSorted, PostInv,
         Commission!Go, Commission!Answer, Commission!row, Commission!totals
    <2>2. /\ Summed' = Summed \union {p} /\ p \notin Summed
          /\ Summing = Summing' \union {p} /\ p \notin Summing'
          /\ Added' = Added
      BY <2>1 DEF Added, Summed, Summing, CommissionInv, CommissionSorted
    <2>3. /\ Cardinality(Summed') = Cardinality(Summed) + 1
          /\ Cardinality(Summing) = Cardinality(Summing') + 1
      BY <1>0, <2>2, OneMore
    <2>4. Spoilt' <=> Spoilt
      BY <2>1 DEF Spoilt, CommissionInv, CommissionSorted
    <2>5. QED
      BY <1>a, <2>1, <2>2, <2>3, <2>4 DEF TotalInv
  <1>5. ASSUME NEW p \in Posts, Commission!Fails(p) PROVE TotalInv'
    <2>1. /\ postAt' = [postAt EXCEPT ![p] = "over"] /\ postAt[p] # "over"
          /\ response' = [response EXCEPT ![p] = "error"]
          /\ UNCHANGED <<commissions, affiliateTotal, conversionTotal>>
      BY <1>5 DEF Commission!Fails, CommissionInv, CommissionSorted, PostInv,
         Commission!Go, Commission!Answer, Commission!row, Commission!totals
    <2>2. CASE p \in commissions
      <3>1. Spoilt'
        BY <2>1, <2>2 DEF Spoilt, CommissionInv, CommissionSorted
      <3>2. Added \subseteq Added' /\ Summing' \subseteq Summing
        BY <2>1 DEF Added, Summing, CommissionInv, CommissionSorted
      <3>3. /\ Cardinality(Added) <= Cardinality(Added')
            /\ Cardinality(Summing') <= Cardinality(Summing)
        BY <1>0, <3>2, LargerPart
      <3>4. QED
        BY <1>a, <2>1, <3>1, <3>3 DEF TotalInv
    <2>3. CASE p \notin commissions
      <3>1. Added' = Added /\ Summed' = Summed /\ Summing' = Summing
        BY <2>1, <2>3 DEF Added, Summed, Summing, CommissionInv, CommissionSorted,
           PostInv
      <3>2. Spoilt => Spoilt'
        BY <2>1, <2>3 DEF Spoilt, CommissionInv, CommissionSorted
      <3>3. QED
        BY <1>1, <2>1, <3>1, <3>2
    <2>4. QED
      BY <2>2, <2>3
  <1>6. CASE /\ UNCHANGED <<commissions, affiliateTotal, conversionTotal>>
             /\ \A q \in commissions : postAt'[q] = postAt[q] /\ response'[q] = response[q]
             /\ \A q \in Posts : postAt'[q] = "summing" <=> postAt[q] = "summing"
    <2>1. Added' = Added /\ Summed' = Summed /\ Summing' = Summing
      BY <1>6 DEF Added, Summed, Summing
    <2>2. Spoilt => Spoilt'
      BY <1>6 DEF Spoilt
    <2>3. QED
      BY <1>1, <1>6, <2>1, <2>2
  <1>7. ASSUME NEW p \in Posts, Commission!LookEvent(p) PROVE TotalInv'
    BY <1>6, <1>7 DEF Commission!LookEvent, CommissionInv, CommissionSorted, PostInv,
       Commission!Go, Commission!Answer, Commission!row, Commission!totals
  <1>8. ASSUME NEW p \in Posts,
               \/ Commission!InsertRow(p) \/ Commission!SetSignup(p)
               \/ Commission!SetPayment(p) \/ Commission!Cancel(p)
               \/ Commission!CountSignup(p) \/ Commission!CountPayment(p)
               \/ Commission!LookStatus(p) \/ Commission!CheckPeriod(p)
        PROVE  TotalInv'
    BY <1>6, <1>8 DEF Commission!InsertRow, Commission!SetSignup, Commission!SetPayment,
       Commission!Cancel, Commission!CountSignup, Commission!CountPayment,
       Commission!LookStatus, Commission!CheckPeriod, CommissionInv, CommissionSorted,
       PostInv, Commission!Go, Commission!Answer, Commission!row, Commission!totals
  <1>9. CASE UNCHANGED Commission!vars
    BY <1>6, <1>9 DEF Commission!vars
  <1>10. QED
    BY <1>2, <1>3, <1>4, <1>5, <1>7, <1>8, <1>9 DEF Commission!Next

\* The invariant holds throughout.
LEMMA CommissionInvariant == IsFiniteSet(Posts) /\ Commission!Spec => []CommissionInv
  <1> SUFFICES ASSUME IsFiniteSet(Posts) PROVE Commission!Spec => []CommissionInv
    OBVIOUS
  <1>1. CommissionInv /\ [Commission!Next]_(Commission!vars) => CommissionInv'
    BY CommissionTypes, CommissionBits, PostStep, SignupStep, PaymentStep, PeriodStep,
       TotalStep DEF CommissionInv
  <1>2. QED
    BY <1>1, CommissionInit, PTL DEF Commission!Spec

\* The types, and what the run checks of the commissions, follow.
LEMMA Commissioned ==
    ASSUME IsFiniteSet(Posts), CommissionInv
    PROVE  Commission!TypeOK /\ Commission!OnceEach /\ Commission!TotalsAddUp
  <1>1. Commission!TypeOK
    BY DEF Commission!TypeOK, CommissionInv, CommissionSorted, CommissionFlags
  <1>2. Commission!OnceEach
    <2>1. "signup" \notin crossed => signups \in {0, 1}
      BY DEF CommissionInv, SignupInv, OnceInv
    <2>2. "first_payment" \notin crossed => conversions \in {0, 1}
      BY DEF CommissionInv, PaymentInv, OnceInv
    <2>3. \A p, q \in commissions : post[p] = post[q] => p = q \/ post[p] \in crossed
      BY DEF CommissionInv, PeriodInv
    <2>4. QED
      BY <2>1, <2>2, <2>3 DEF Commission!OnceEach
  <1>3. Commission!TotalsAddUp
    <2>1. /\ Added \subseteq commissions /\ Summed \subseteq commissions
          /\ commissions \subseteq Posts /\ Summing \subseteq Posts
      BY DEF Added, Summed, Summing, CommissionInv, CommissionSorted
    <2>2. /\ Cardinality(Added) <= Cardinality(commissions)
          /\ Cardinality(Added) \in Nat /\ Cardinality(commissions) \in Nat
          /\ Cardinality(Summing) \in Nat
      BY <2>1, LargerPart, Sizes
    <2>3. /\ conversionTotal <= affiliateTotal
          /\ affiliateTotal <= Cardinality(commissions)
      <3>1. TotalInv /\ conversionTotal \in Nat /\ affiliateTotal \in Nat
        BY DEF CommissionInv, CommissionSorted
      <3>2. QED
        BY <2>2, <3>1 DEF TotalInv
    <2>4. \/ affiliateTotal = Cardinality(commissions)
          \/ Commission!Behind(commissions, {"adding"})
      <3>1. CASE Added = commissions
        BY <3>1 DEF CommissionInv, TotalInv, Spoilt, Commission!Behind
      <3>2. CASE Added # commissions
        BY <3>2 DEF Added, Commission!Behind
      <3>3. QED
        BY <3>1, <3>2
    <2>5. \/ conversionTotal = Cardinality(commissions)
          \/ Commission!Behind(commissions, {"adding", "summing"})
      <3>1. CASE Summed = commissions
        BY <3>1 DEF CommissionInv, TotalInv, Spoilt, Commission!Behind
      <3>2. CASE Summed # commissions
        BY <3>2 DEF Summed, Commission!Behind
      <3>3. QED
        BY <3>1, <3>2
    <2>6. /\ signup /\ signups = 0 =>
                Commission!Behind(Commission!About("signup"), {"counting signup"})
          /\ payment /\ conversions = 0 =>
                Commission!Behind(Commission!About("first_payment"), {"counting payment"})
      BY DEF CommissionInv, SignupInv, PaymentInv, Commission!Behind, Commission!About
    <2>7. QED
      BY <2>3, <2>4, <2>5, <2>6, CommissionCounting DEF Commission!TotalsAddUp
  <1>4. QED
    BY <1>1, <1>2, <1>3

(***************************************************************************)
(* Split orders                                                            *)
(***************************************************************************)

\* The types; a split order that exists has legs, and no other.
SplitSorted(s) ==
    /\ qty[s] \in Seq(Nat)
    /\ leg[s] \in [1..Len(qty[s]) -> {"pending", "completed", "failed"}]
    /\ sent[s] \in [1..Len(qty[s]) -> Nat]
    /\ pos[s] \in 1..Len(qty[s]) + 1
    /\ live[s] \subseteq 1..Len(qty[s])
    /\ cut[s] \subseteq 1..Len(qty[s])
    /\ status[s] = "ABSENT" <=> qty[s] = <<>>
SplitDomains ==
    /\ status \in [Splits -> {"PENDING", "IN_PROGRESS", "COMPLETED", "CANCELLED",
                              "FAILED", "ABSENT"}]
    /\ task \in [Splits -> {"none", "paused", "placing", "cancelled"}]
    /\ DOMAIN qty = Splits /\ DOMAIN leg = Splits /\ DOMAIN sent = Splits
    /\ DOMAIN pos = Splits /\ DOMAIN live = Splits /\ DOMAIN cut = Splits

\* The task runs while the order is in progress, and is at one of the legs.
TaskInv(s) ==
    /\ status[s] \in {"ABSENT", "PENDING"} => task[s] = "none" /\ pos[s] = 1
    /\ task[s] \in {"paused", "placing"} <=> status[s] = "IN_PROGRESS"
    /\ task[s] \in {"paused", "placing"} => pos[s] <= Len(qty[s])
    /\ task[s] = "cancelled" => status[s] = "CANCELLED"

\* The legs before it are answered and those from it on are not; none behind it was
\* sent, and the one it is at only while it is being placed.
LegInv(s) ==
    \A i \in 1..Len(qty[s]) :
       /\ i < pos[s] => leg[s][i] # "pending"
       /\ sent[s][i] <= 1
       /\ i > pos[s] => sent[s][i] = 0
       /\ i = pos[s] /\ (task[s] = "paused" \/ status[s] \in {"ABSENT", "PENDING"}) =>
             sent[s][i] = 0

\* What the status of an order says, and what a cancellation leaves.
EndInv(s) ==
    /\ status[s] = "COMPLETED" =>
          \A i \in 1..Len(qty[s]) : leg[s][i] = "completed"
    /\ status[s] = "FAILED" => /\ \A i \in 1..Len(qty[s]) : leg[s][i] # "pending"
                               /\ \E i \in 1..Len(qty[s]) : leg[s][i] = "failed"
    /\ \A i \in live[s] : leg[s][i] = "pending" => i \in cut[s]
    /\ \A i, j \in cut[s] : i = j
    /\ cut[s] # {} => status[s] = "CANCELLED"

SplitInv ==
    /\ SplitDomains
    /\ \A s \in Splits : SplitSorted(s) /\ TaskInv(s) /\ LegInv(s) /\ EndInv(s)

\* An order that exists has a leg.
LEMMA SomeLegs ==
    ASSUME NEW s \in Splits, SplitSorted(s), status[s] # "ABSENT"
    PROVE  Len(qty[s]) \in Nat /\ 1 <= Len(qty[s])
  BY DEF SplitSorted

\* Init establishes the invariant.
LEMMA SplitInit == Splitter!Init => SplitInv
  BY DEF Splitter!Init, Splitter!Absent, SplitInv, SplitDomains, SplitSorted, TaskInv,
     LegInv, EndInv

\* The orders that a step is not about stay as they are.
LEMMA OtherSplits ==
    ASSUME SplitInv, NEW s \in Splits, NEW o \in Splits, o # s,
           \/ \E legs \in Splitter!LegLists : Splitter!CreateSplit(s, legs)
           \/ Splitter!ExecuteSplit(s) \/ Splitter!PlaceLeg(s) \/ Splitter!CancelSplit(s)
           \/ Splitter!CancelArrives(s)
           \/ \E r \in Splitter!Outcomes : Splitter!LegReturns(s, r)
    PROVE  (SplitSorted(o) /\ TaskInv(o) /\ LegInv(o) /\ EndInv(o))'
  <1>1. /\ status'[o] = status[o] /\ qty'[o] = qty[o] /\ leg'[o] = leg[o]
        /\ task'[o] = task[o] /\ pos'[o] = pos[o] /\ sent'[o] = sent[o]
        /\ live'[o] = live[o] /\ cut'[o] = cut[o]
    BY DEF Splitter!CreateSplit, Splitter!ExecuteSplit, Splitter!PlaceLeg,
       Splitter!CancelSplit, Splitter!CancelArrives, Splitter!LegReturns, SplitInv,
       SplitDomains
  <1>2. QED
    BY <1>1 DEF SplitInv, SplitSorted, TaskInv, LegInv, EndInv

\* A step keeps the domains.
LEMMA SplitDomainStep ==
    ASSUME SplitInv, [Splitter!Next]_(Splitter!vars) PROVE SplitDomains'
  <1> USE DEF SplitInv, SplitDomains
  <1>1. ASSUME NEW s \in Splits, NEW legs, Splitter!CreateSplit(s, legs)
        PROVE  SplitDomains'
    BY <1>1 DEF Splitter!CreateSplit
  <1>2. ASSUME NEW s \in Splits,
               \/ Splitter!ExecuteSplit(s) \/ Splitter!PlaceLeg(s)
               \/ Splitter!CancelSplit(s) \/ Splitter!CancelArrives(s)
        PROVE  SplitDomains'
    BY <1>2 DEF Splitter!ExecuteSplit, Splitter!PlaceLeg, Splitter!CancelSplit,
       Splitter!CancelArrives, Splitter!TaskAfterCancel
  <1>3. ASSUME NEW s \in Splits, NEW o, Splitter!LegReturns(s, o) PROVE SplitDomains'
    BY <1>3 DEF Splitter!LegReturns, Splitter!Verdict
  <1>4. CASE UNCHANGED Splitter!vars
    BY <1>4 DEF Splitter!vars
  <1>5. QED
    BY <1>1, <1>2, <1>3, <1>4 DEF Splitter!Next

\* A step keeps the invariant of the order it is about.
LEMMA SplitStep ==
    ASSUME SplitInv, [Splitter!Next]_(Splitter!vars) PROVE SplitInv'
  <1> DEFINE Fine(s) == SplitSorted(s) /\ TaskInv(s) /\ LegInv(s) /\ EndInv(s)
  <1>0. SplitDomains'
    BY SplitDomainStep
  <1>1. ASSUME NEW s \in Splits, NEW legs \in Splitter!LegLists,
               Splitter!CreateSplit(s, legs)
        PROVE  Fine(s)'
    <2>1. /\ legs \in Seq(Nat) /\ legs # <<>>
          /\ DOMAIN legs = 1..Len(legs) /\ Len(legs) \in Nat
      BY CutsAreLegs
    <2>2. /\ status'[s] = "PENDING" /\ qty'[s] = legs
          /\ leg'[s] = [i \in 1..Len(legs) |-> "pending"]
          /\ sent'[s] = [i \in 1..Len(legs) |-> 0]
          /\ status[s] = "ABSENT" /\ UNCHANGED <<task, pos, live, cut>>
      BY <1>1, <2>1 DEF Splitter!CreateSplit, Splitter!Absent, SplitInv, SplitDomains
    <2>3. task[s] = "none" /\ pos[s] = 1 /\ cut[s] = {} /\ live[s] = {}
      <3>1. 1..Len(qty[s]) = {}
        BY <2>2 DEF SplitInv, SplitSorted
      <3>2. QED
        BY <2>2, <3>1 DEF SplitInv, SplitSorted, TaskInv
    <2>4. QED
      BY <2>1, <2>2, <2>3 DEF SplitSorted, TaskInv, LegInv, EndInv
  <1>2. ASSUME NEW s \in Splits, Splitter!ExecuteSplit(s) PROVE Fine(s)'
    <2>1. /\ status[s] = "PENDING" /\ status'[s] = "IN_PROGRESS" /\ task'[s] = "paused"
          /\ pos'[s] = 1 /\ UNCHANGED <<qty, leg, sent, live, cut>>
      BY <1>2 DEF Splitter!ExecuteSplit, Splitter!Executable, SplitInv, SplitDomains
    <2>2. Len(qty[s]) \in Nat /\ 1 <= Len(qty[s])
      BY <2>1, SomeLegs DEF SplitInv
    <2>3. pos[s] = 1 /\ cut[s] = {}
      BY <2>1 DEF SplitInv, TaskInv, EndInv
    <2>4. SplitSorted(s)' /\ TaskInv(s)'
      BY <2>1, <2>2 DEF SplitInv, SplitSorted, TaskInv
    <2>5. LegInv(s)' /\ EndInv(s)'
      BY <2>1, <2>2, <2>3 DEF SplitInv, LegInv, EndInv
    <2>6. QED
      BY <2>4, <2>5
  <1>3. ASSUME NEW s \in Splits, Splitter!PlaceLeg(s) PROVE Fine(s)'
    BY <1>3 DEF Splitter!PlaceLeg, SplitInv, SplitDomains, SplitSorted, TaskInv, LegInv,
       EndInv
  <1>4. ASSUME NEW s \in Splits, Splitter!CancelSplit(s) PROVE Fine(s)'
    <2>1. /\ status[s] \in {"PENDING", "IN_PROGRESS"} /\ status'[s] = "CANCELLED"
          /\ task'[s] \in {"none", "cancelled"} /\ UNCHANGED <<qty, leg, pos, sent, live>>
          /\ cut'[s] = IF task[s] = "placing" THEN {pos[s]} ELSE {}
      BY <1>4 DEF Splitter!CancelSplit, Splitter!Cancellable, Splitter!TaskAfterCancel,
         SplitInv, SplitDomains, TaskInv
    <2>2. task[s] = "placing" => pos[s] \in 1..Len(qty[s])
      BY DEF SplitInv, SplitSorted, TaskInv
    <2>3. SplitSorted(s)' /\ TaskInv(s)'
      BY <2>1, <2>2 DEF SplitInv, SplitSorted, TaskInv
    <2>4. LegInv(s)'
      BY <2>1 DEF SplitInv, LegInv
    <2>5. EndInv(s)'
      BY <2>1 DEF SplitInv, EndInv
    <2>6. QED
      BY <2>3, <2>4, <2>5
  <1>5. ASSUME NEW s \in Splits, Splitter!CancelArrives(s) PROVE Fine(s)'
    BY <1>5 DEF Splitter!CancelArrives, SplitInv, SplitDomains, SplitSorted, TaskInv,
       LegInv, EndInv
  <1>6. ASSUME NEW s \in Splits, NEW o \in Splitter!Outcomes, Splitter!LegReturns(s, o)
        PROVE  Fine(s)'
    <2> DEFINE k == pos[s]
               n == Len(qty[s])
    <2>1. /\ task[s] = "placing" /\ UNCHANGED <<qty, sent, cut>> /\ pos'[s] = k + 1
          /\ leg'[s] = [leg[s] EXCEPT ![k] = Splitter!LegAfter(o)]
          /\ live'[s] = live[s] \/ live'[s] = live[s] \union {k}
          /\ task'[s] = IF k = n THEN "none" ELSE "paused"
          /\ status'[s] = IF k = n THEN Splitter!Verdict(leg'[s]) ELSE status[s]
      BY <1>6 DEF Splitter!LegReturns, SplitInv, SplitDomains
    <2>2. k \in 1..n /\ n \in Nat /\ status[s] = "IN_PROGRESS"
      BY <2>1 DEF SplitInv, SplitSorted, TaskInv
    <2>3. /\ Splitter!LegAfter(o) \in {"completed", "failed"} /\ leg'[s][k] # "pending"
          /\ \A i \in 1..n : i # k => leg'[s][i] = leg[s][i]
          /\ leg'[s] \in [1..n -> {"pending", "completed", "failed"}]
      BY <2>1, <2>2 DEF Splitter!LegAfter, SplitInv, SplitSorted
    <2>4. Splitter!Verdict(leg'[s]) =
             IF \E i \in 1..n : leg'[s][i] = "failed" THEN "FAILED" ELSE "COMPLETED"
      BY <2>3 DEF Splitter!Verdict
    <2>5. SplitSorted(s)'
      BY <2>1, <2>2, <2>3, <2>4 DEF SplitInv, SplitSorted
    <2>6. TaskInv(s)'
      BY <2>1, <2>2, <2>4 DEF TaskInv
    <2>7. LegInv(s)'
      BY <2>1, <2>2, <2>3, <2>4 DEF SplitInv, LegInv
    <2>8. EndInv(s)'
      <3>1. k = n => \A i \in 1..n : leg'[s][i] # "pending"
        BY <2>2, <2>3 DEF SplitInv, LegInv
      <3>2. cut[s] = {}
        BY <2>2 DEF SplitInv, EndInv
      <3>3. \A i \in live'[s] : leg'[s][i] # "pending"
        BY <2>1, <2>3, <3>2 DEF SplitInv, SplitSorted, EndInv
      <3>4. QED
        BY <2>1, <2>2, <2>3, <2>4, <3>1, <3>2, <3>3 DEF EndInv
    <2>9. QED
      BY <2>5, <2>6, <2>7, <2>8
  <1>7. ASSUME UNCHANGED Splitter!vars, NEW s \in Splits PROVE Fine(s)'
    <2>1. SplitSorted(s)' /\ TaskInv(s)'
      BY <1>7 DEF Splitter!vars, SplitInv, SplitSorted, TaskInv
    <2>2. LegInv(s)' /\ EndInv(s)'
      BY <1>7 DEF Splitter!vars, SplitInv, LegInv, EndInv
    <2>3. QED
      BY <2>1, <2>2
  <1>8. QED
    BY <1>0, <1>1, <1>2, <1>3, <1>4, <1>5, <1>6, <1>7, OtherSplits DEF Splitter!Next,
       SplitInv

\* The invariant holds throughout.
LEMMA SplitInvariant == Splitter!Spec => []SplitInv
  <1>1. SplitInv /\ [Splitter!Next]_(Splitter!vars) => SplitInv'
    BY SplitStep
  <1>2. QED
    BY <1>1, SplitInit, PTL DEF Splitter!Spec

\* The cardinality of the instance is that of the library.
LEMMA SplitCounting == \A S : Splitter!Cardinality(S) = Cardinality(S)
  BY DEF Cardinality, Splitter!Cardinality

\* What the run checks of the orders follows from the invariant.
LEMMA SplitsEndTruly ==
    ASSUME SplitInv
    PROVE  /\ Splitter!TypeOK /\ Splitter!LegsSentOnce
           /\ Splitter!VerdictIsTrue /\ Splitter!AtMostOneUnknown
  <1>1. Splitter!TypeOK
    <2>1. \A s \in Splits : DOMAIN qty[s] = 1..Len(qty[s])
      BY DEF SplitInv, SplitSorted
    <2>2. QED
      BY <2>1 DEF Splitter!TypeOK, Splitter!SplitStatus, Splitter!Absent,
         Splitter!LegStatus, SplitInv, SplitDomains, SplitSorted
  <1>2. Splitter!LegsSentOnce
    BY DEF Splitter!LegsSentOnce, SplitInv, SplitSorted, LegInv
  <1>3. Splitter!VerdictIsTrue
    <2>1. \A s \in Splits : DOMAIN leg[s] = 1..Len(qty[s])
      BY DEF SplitInv, SplitSorted
    <2>2. QED
      BY <2>1 DEF Splitter!VerdictIsTrue, SplitInv, EndInv
  <1>4. \A s \in Splits : Splitter!Cardinality(cut[s]) <= 1
    BY SplitCounting, AtMostOne DEF SplitInv, EndInv
  <1>5. Splitter!AtMostOneUnknown
    BY <1>4 DEF Splitter!AtMostOneUnknown, SplitInv, EndInv
  <1>6. QED
    BY <1>1, <1>2, <1>3, <1>5

\* A step of a cancelled order leaves it cancelled and sends nothing.
LEMMA CancelledSendsNothing ==
    ASSUME SplitInv, Splitter!Next, NEW s \in Splits, status[s] = "CANCELLED"
    PROVE  status'[s] = "CANCELLED" /\ sent'[s] = sent[s]
  <1>1. task[s] \notin {"paused", "placing"}
    BY DEF SplitInv, TaskInv
  <1>2. QED
    BY <1>1 DEF Splitter!Next, Splitter!CreateSplit, Splitter!ExecuteSplit,
       Splitter!Executable, Splitter!PlaceLeg, Splitter!CancelSplit,
       Splitter!Cancellable, Splitter!CancelArrives, Splitter!LegReturns,
       Splitter!Absent, SplitInv, SplitDomains

(***************************************************************************)
(* The analysis                                                            *)
(***************************************************************************)

\* LangGraph allows the supersteps that the longest analysis takes (it takes 12, the
\* default is 25).
AnalysisAssumptions == RecursionLimit \in Nat /\ RecursionLimit >= 12

\* The types, that of the flag apart.
AnalysisSorted ==
    /\ wanted \subseteq Analysis!OptionalAnalysts
    /\ step \in Nat /\ step <= 12
    /\ round \in 1..3
    /\ output \in [Analysis!Nodes -> {"none", "ok", "failed"}]
    /\ runs \in [Analysis!Nodes -> Nat]
    /\ informed \subseteq Analysis!Nodes

\* The superstep k: what is to run, the round of the debate, and how often the
\* debaters and the check behind them ran so far.
Scene(k, nodes, number, bulls, bears, checks) ==
    step = k =>
       /\ active = nodes /\ round = number
       /\ runs["bull_research"] = bulls /\ runs["bear_research"] = bears
       /\ runs["quant_check"] = checks

\* What is to run after the screening and the market regime, whichever analysts are
\* called for.
Begun ==
    /\ step = 0 => active = {"pre_screener"}
    /\ step = 1 => active = IF passed THEN {"market_regime"} ELSE {"skip_instrument"}
    /\ step = 2 => active = IF passed THEN Analysis!AfterRegime ELSE {}
    /\ step > 2 => passed
    /\ step <= 2 => /\ round = 1 /\ runs["bull_research"] = 0
                    /\ runs["bear_research"] = 0 /\ runs["quant_check"] = 0

\* One wave, when all optional analysts are called for: the debate starts behind them.
OneWave ==
    /\ Scene(3, {"bull_research"}, 1, 0, 0, 0)
    /\ Scene(4, {"bear_research"}, 1, 1, 0, 0)
    /\ Scene(5, {"debate_counter"}, 1, 1, 1, 0)
    /\ Scene(6, {"bull_research"}, 2, 1, 1, 0)
    /\ Scene(7, {"bear_research"}, 2, 2, 1, 0)
    /\ Scene(8, {"quant_check"}, 2, 2, 2, 0)
    /\ Scene(9, {"risk_manager"}, 2, 2, 2, 1)
    /\ Scene(10, {"strategic_review"}, 2, 2, 2, 1)
    /\ Scene(11, {"final_trader"}, 2, 2, 2, 1)
    /\ Scene(12, {}, 2, 2, 2, 1)

\* Two waves otherwise: the debate starts beside the analysts, and once more behind
\* them.
TwoWaves ==
    /\ Scene(3, {"bull_research", "bear_research"}, 1, 1, 0, 0)
    /\ Scene(4, {"bear_research", "debate_counter"}, 1, 2, 1, 0)
    /\ Scene(5, {"debate_counter", "bull_research"}, 2, 2, 2, 0)
    /\ Scene(6, {"bull_research", "bear_research"}, 3, 3, 2, 0)
    /\ Scene(7, {"bear_research", "quant_check"}, 3, 4, 3, 0)
    /\ Scene(8, {"quant_check", "risk_manager"}, 3, 4, 4, 1)
    /\ Scene(9, {"risk_manager", "strategic_review"}, 3, 4, 4, 2)
    /\ Scene(10, {"strategic_review", "final_trader"}, 3, 4, 4, 2)
    /\ Scene(11, {"final_trader"}, 3, 4, 4, 2)
    /\ Scene(12, {}, 3, 4, 4, 2)

\* Who runs when there is one wave, the debaters apart: each in a superstep of its own.
Place(n) ==
    CASE n = "pre_screener" -> 0
      [] n \in {"market_regime", "skip_instrument"} -> 1
      [] n \in Analysis!Analysts -> 2
      [] n = "debate_counter" -> 5
      [] n = "quant_check" -> 8
      [] n = "risk_manager" -> 9
      [] n = "strategic_review" -> 10
      [] OTHER -> 11
WaveInv ==
    wanted = Analysis!OptionalAnalysts =>
       \A n \in Analysis!Nodes \ {"bull_research", "bear_research"} :
          runs[n] <= 1 /\ (runs[n] = 1 => Place(n) < step)

\* From the fourth superstep on all reports are in, and whoever runs is informed.
ReportsInv ==
    /\ step >= 3 => Analysis!ReportsIn
    /\ step >= 4 => "bull_research" \in informed
    /\ step >= 5 => "bear_research" \in informed
    /\ step >= 9 => "quant_check" \in informed
    /\ step >= 10 => "risk_manager" \in informed
    /\ step >= 11 => "strategic_review" \in informed
    /\ step >= 12 => "final_trader" \in informed

\* Before the screening is over nobody else runs; who is screened out is skipped.
SkipInv ==
    /\ step <= 1 => \A n \in Analysis!Nodes \ {"pre_screener"} : runs[n] = 0
    /\ ~passed =>
          \A n \in Analysis!Nodes \ {"pre_screener", "skip_instrument"} : runs[n] = 0
    /\ passed => runs["skip_instrument"] = 0
    /\ step <= 2 => output["final_trader"] = "none"

AnalysisInv ==
    /\ AnalysisSorted /\ passed \in BOOLEAN
    /\ \A n \in Analysis!Nodes : runs[n] <= step
    /\ Begun
    /\ IF wanted = Analysis!OptionalAnalysts THEN OneWave ELSE TwoWaves
    /\ WaveInv /\ ReportsInv /\ SkipInv

\* Init establishes the invariant.
LEMMA AnalysisInit == Analysis!Init => AnalysisInv
  <1> SUFFICES ASSUME Analysis!Init PROVE AnalysisInv
    OBVIOUS
  <1> USE DEF Analysis!Init
  <1>1. AnalysisSorted /\ \A n \in Analysis!Nodes : runs[n] <= step
    BY DEF AnalysisSorted, Analysis!Nodes
  <1>2. passed \in BOOLEAN
    BY Zenon
  <1>3. Begun /\ OneWave /\ TwoWaves
    BY DEF Begun, OneWave, TwoWaves, Scene, Analysis!Nodes
  <1>4. \A n \in Analysis!Nodes : runs[n] = 0 /\ output[n] = "none"
    BY Zenon
  <1>5. {"skip_instrument", "final_trader"} \subseteq Analysis!Nodes
    BY DEF Analysis!Nodes
  <1>6. WaveInv /\ ReportsInv /\ SkipInv
    BY <1>4, <1>5 DEF WaveInv, ReportsInv, SkipInv
  <1>7. QED
    BY <1>1, <1>2, <1>3, <1>6 DEF AnalysisInv

\* Where the edges lead.
LEMMA Edges ==
    ASSUME NEW pass
    PROVE  /\ Analysis!Successors("pre_screener", pass) = Analysis!AfterScreening(pass)
           /\ Analysis!Successors("skip_instrument", pass) = {}
           /\ Analysis!Successors("market_regime", pass) = Analysis!AfterRegime
           /\ \A n \in Analysis!Analysts : Analysis!Successors(n, pass) = {"bull_research"}
           /\ Analysis!Successors("bull_research", pass) = {"bear_research"}
           /\ Analysis!Successors("bear_research", pass) =
                 IF round < 2 THEN {"debate_counter"} ELSE {"quant_check"}
           /\ Analysis!Successors("debate_counter", pass) = {"bull_research"}
           /\ Analysis!Successors("quant_check", pass) = {"risk_manager"}
           /\ Analysis!Successors("risk_manager", pass) = {"strategic_review"}
           /\ Analysis!Successors("strategic_review", pass) = {"final_trader"}
           /\ Analysis!Successors("final_trader", pass) = {}
  BY DEF Analysis!Successors, Analysis!Fixed, Analysis!AfterBear, Analysis!Analysts,
     Analysis!CoreAnalysts, Analysis!OptionalAnalysts

\* What a superstep of one or two nodes leads to.
LEMMA SuperstepOfTwo ==
    ASSUME NEW fails, NEW pass, Analysis!Superstep(fails, pass), NEW a, NEW b,
           active = {a, b}
    PROVE  active' = Analysis!Successors(a, Analysis!ScreeningPasses(fails, pass))
              \union Analysis!Successors(b, Analysis!ScreeningPasses(fails, pass))
  BY DEF Analysis!Superstep

\* What it counts.
LEMMA SuperstepCounts ==
    ASSUME AnalysisSorted, NEW fails, NEW pass, Analysis!Superstep(fails, pass)
    PROVE  /\ step' = step + 1 /\ active # {} /\ UNCHANGED wanted
           /\ round' = IF "debate_counter" \in active THEN round + 1 ELSE round
           /\ \A n \in Analysis!Nodes :
                 runs'[n] = IF n \in active THEN runs[n] + 1 ELSE runs[n]
  BY DEF Analysis!Superstep, Analysis!CountedRound, AnalysisSorted

\* The scenes of one wave follow each other.
LEMMA OneWaveStep ==
    ASSUME AnalysisInv, wanted = Analysis!OptionalAnalysts, NEW fails, NEW pass,
           Analysis!Superstep(fails, pass)
    PROVE  OneWave' /\ step' <= 12
  <1> USE DEF Scene
  <1>1. step \in Nat /\ step <= 12 /\ OneWave /\ Begun /\ active # {}
    BY SuperstepCounts DEF AnalysisInv, AnalysisSorted
  <1>2. /\ step' = step + 1 /\ step # 12
        /\ round' = IF "debate_counter" \in active THEN round + 1 ELSE round
        /\ \A n \in {"bull_research", "bear_research", "quant_check"} :
              runs'[n] = IF n \in active THEN runs[n] + 1 ELSE runs[n]
    BY <1>1, SuperstepCounts DEF OneWave, AnalysisInv, Analysis!Nodes
  <1>3. CASE step < 2
    BY <1>1, <1>2, <1>3 DEF OneWave
  <1>4. CASE step = 2
    <2>1. active = Analysis!Analysts
      BY <1>1, <1>4 DEF Begun, Analysis!AfterRegime, Analysis!Analysts
    <2>2. active' = {"bull_research"}
      BY <1>1, <2>1, Edges DEF Analysis!Superstep
    <2>3. ~(\E n \in {"bull_research", "bear_research", "quant_check", "debate_counter"} :
               n \in active)
      BY <2>1 DEF Analysis!Analysts, Analysis!CoreAnalysts, Analysis!OptionalAnalysts
    <2>4. QED
      BY <1>1, <1>2, <1>4, <2>2, <2>3 DEF OneWave, Begun
  <1>5. CASE step = 3
    <2>1. active' = {"bear_research"}
      BY <1>1, <1>5, SuperstepOfTwo, Edges DEF OneWave
    <2>2. QED
      BY <1>1, <1>2, <1>5, <2>1 DEF OneWave
  <1>6. CASE step = 4
    <2>1. active' = {"debate_counter"}
      BY <1>1, <1>6, SuperstepOfTwo, Edges DEF OneWave
    <2>2. QED
      BY <1>1, <1>2, <1>6, <2>1 DEF OneWave
  <1>7. CASE step = 5
    <2>1. active' = {"bull_research"}
      BY <1>1, <1>7, SuperstepOfTwo, Edges DEF OneWave
    <2>2. QED
      BY <1>1, <1>2, <1>7, <2>1 DEF OneWave
  <1>8. CASE step = 6
    <2>1. active' = {"bear_research"}
      BY <1>1, <1>8, SuperstepOfTwo, Edges DEF OneWave
    <2>2. QED
      BY <1>1, <1>2, <1>8, <2>1 DEF OneWave
  <1>9. CASE step = 7
    <2>1. active' = {"quant_check"}
      BY <1>1, <1>9, SuperstepOfTwo, Edges DEF OneWave
    <2>2. QED
      BY <1>1, <1>2, <1>9, <2>1 DEF OneWave
  <1>10. CASE step = 8
    <2>1. active' = {"risk_manager"}
      BY <1>1, <1>10, SuperstepOfTwo, Edges DEF OneWave
    <2>2. QED
      BY <1>1, <1>2, <1>10, <2>1 DEF OneWave
  <1>11. CASE step = 9
    <2>1. active' = {"strategic_review"}
      BY <1>1, <1>11, SuperstepOfTwo, Edges DEF OneWave
    <2>2. QED
      BY <1>1, <1>2, <1>11, <2>1 DEF OneWave
  <1>12. CASE step = 10
    <2>1. active' = {"final_trader"}
      BY <1>1, <1>12, SuperstepOfTwo, Edges DEF OneWave
    <2>2. QED
      BY <1>1, <1>2, <1>12, <2>1 DEF OneWave
  <1>13. CASE step = 11
    <2>1. active' = {}
      BY <1>1, <1>13, SuperstepOfTwo, Edges DEF OneWave
    <2>2. QED
      BY <1>1, <1>2, <1>13, <2>1 DEF OneWave
  <1>14. QED
    BY <1>1, <1>2, <1>3, <1>4, <1>5, <1>6, <1>7, <1>8, <1>9, <1>10, <1>11, <1>12, <1>13

\* So do those of two waves.
LEMMA TwoWavesStep ==
    ASSUME AnalysisInv, wanted # Analysis!OptionalAnalysts, NEW fails, NEW pass,
           Analysis!Superstep(fails, pass)
    PROVE  TwoWaves' /\ step' <= 12
  <1> USE DEF Scene
  <1>1. step \in Nat /\ step <= 12 /\ TwoWaves /\ Begun /\ active # {}
    BY SuperstepCounts DEF AnalysisInv, AnalysisSorted
  <1>2. /\ step' = step + 1 /\ step # 12
        /\ round' = IF "debate_counter" \in active THEN round + 1 ELSE round
        /\ \A n \in {"bull_research", "bear_research", "quant_check"} :
              runs'[n] = IF n \in active THEN runs[n] + 1 ELSE runs[n]
    BY <1>1, SuperstepCounts DEF TwoWaves, AnalysisInv, Analysis!Nodes
  <1>3. CASE step < 2
    BY <1>1, <1>2, <1>3 DEF TwoWaves
  <1>4. CASE step = 2
    <2>1. /\ active = Analysis!CoreAnalysts \union wanted \union {"bull_research"}
          /\ Analysis!CoreAnalysts \union wanted \subseteq Analysis!Analysts
      BY <1>1, <1>4 DEF Begun, Analysis!AfterRegime, Analysis!Analysts, AnalysisInv,
         AnalysisSorted
    <2>2. "macro" \in active
      BY <2>1 DEF Analysis!CoreAnalysts
    <2>3. active' = {"bull_research", "bear_research"}
      BY <2>1, <2>2, Edges DEF Analysis!Superstep
    <2>4. ~(\E n \in {"bear_research", "quant_check", "debate_counter"} : n \in active)
      BY <2>1 DEF Analysis!Analysts, Analysis!CoreAnalysts, Analysis!OptionalAnalysts
    <2>5. QED
      BY <1>1, <1>2, <1>4, <2>1, <2>3, <2>4 DEF TwoWaves, Begun
  <1>5. CASE step = 3
    <2>1. active' = {"bear_research", "debate_counter"}
      BY <1>1, <1>5, SuperstepOfTwo, Edges DEF TwoWaves
    <2>2. QED
      BY <1>1, <1>2, <1>5, <2>1 DEF TwoWaves
  <1>6. CASE step = 4
    <2>1. active' = {"debate_counter", "bull_research"}
      BY <1>1, <1>6, SuperstepOfTwo, Edges DEF TwoWaves
    <2>2. QED
      BY <1>1, <1>2, <1>6, <2>1 DEF TwoWaves
  <1>7. CASE step = 5
    <2>1. active' = {"bull_research", "bear_research"}
      BY <1>1, <1>7, SuperstepOfTwo, Edges DEF TwoWaves
    <2>2. QED
      BY <1>1, <1>2, <1>7, <2>1 DEF TwoWaves
  <1>8. CASE step = 6
    <2>1. active' = {"bear_research", "quant_check"}
      BY <1>1, <1>8, SuperstepOfTwo, Edges DEF TwoWaves
    <2>2. QED
      BY <1>1, <1>2, <1>8, <2>1 DEF TwoWaves
  <1>9. CASE step = 7
    <2>1. active' = {"quant_check", "risk_manager"}
      BY <1>1, <1>9, SuperstepOfTwo, Edges DEF TwoWaves
    <2>2. QED
      BY <1>1, <1>2, <1>9, <2>1 DEF TwoWaves
  <1>10. CASE step = 8
    <2>1. active' = {"risk_manager", "strategic_review"}
      BY <1>1, <1>10, SuperstepOfTwo, Edges DEF TwoWaves
    <2>2. QED
      BY <1>1, <1>2, <1>10, <2>1 DEF TwoWaves
  <1>11. CASE step = 9
    <2>1. active' = {"strategic_review", "final_trader"}
      BY <1>1, <1>11, SuperstepOfTwo, Edges DEF TwoWaves
    <2>2. QED
      BY <1>1, <1>2, <1>11, <2>1 DEF TwoWaves
  <1>12. CASE step = 10
    <2>1. active' = {"final_trader"}
      BY <1>1, <1>12, SuperstepOfTwo, Edges DEF TwoWaves
    <2>2. QED
      BY <1>1, <1>2, <1>12, <2>1 DEF TwoWaves
  <1>13. CASE step = 11
    <2>1. active' = {}
      BY <1>1, <1>13, SuperstepOfTwo, Edges DEF TwoWaves
    <2>2. QED
      BY <1>1, <1>2, <1>13, <2>1 DEF TwoWaves
  <1>14. QED
    BY <1>1, <1>2, <1>3, <1>4, <1>5, <1>6, <1>7, <1>8, <1>9, <1>10, <1>11, <1>12, <1>13

\* Whichever waves there are, the steps go on to the next scene.
LEMMA WavesStep ==
    ASSUME AnalysisInv, NEW fails, NEW pass, Analysis!Superstep(fails, pass)
    PROVE  /\ step' <= 12
           /\ (IF wanted = Analysis!OptionalAnalysts THEN OneWave ELSE TwoWaves)'
  <1>1. wanted' = wanted
    BY SuperstepCounts DEF AnalysisInv
  <1>2. CASE wanted = Analysis!OptionalAnalysts
    BY <1>1, <1>2, OneWaveStep
  <1>3. CASE wanted # Analysis!OptionalAnalysts
    BY <1>1, <1>3, TwoWavesStep
  <1>4. QED
    BY <1>2, <1>3

\* Only the first superstep screens.
LEMMA ScreenedFirst ==
    ASSUME AnalysisInv
    PROVE  "pre_screener" \in active <=> step = 0
  <1>1. step \in Nat /\ step <= 12 /\ Begun
    BY DEF AnalysisInv, AnalysisSorted
  <1>2. CASE step <= 2
    BY <1>1, <1>2 DEF Begun, Analysis!AfterRegime, Analysis!CoreAnalysts, AnalysisInv,
       AnalysisSorted, Analysis!OptionalAnalysts
  <1>3. CASE step > 2 /\ wanted = Analysis!OptionalAnalysts
    BY <1>1, <1>3 DEF AnalysisInv, OneWave, Scene
  <1>4. CASE step > 2 /\ wanted # Analysis!OptionalAnalysts
    BY <1>1, <1>4 DEF AnalysisInv, TwoWaves, Scene
  <1>5. QED
    BY <1>1, <1>2, <1>3, <1>4

\* The screening, the market regime and what it starts follow each other.
LEMMA BegunStep ==
    ASSUME AnalysisInv, NEW fails, NEW pass \in BOOLEAN, Analysis!Superstep(fails, pass)
    PROVE  Begun' /\ passed' \in BOOLEAN
  <1> DEFINE P == Analysis!ScreeningPasses(fails, pass)
  <1>1. /\ step \in Nat /\ step' = step + 1 /\ Begun /\ active # {}
        /\ round' = IF "debate_counter" \in active THEN round + 1 ELSE round
        /\ \A n \in {"bull_research", "bear_research", "quant_check"} :
              runs'[n] = IF n \in active THEN runs[n] + 1 ELSE runs[n]
        /\ wanted' = wanted
    BY SuperstepCounts DEF AnalysisInv, AnalysisSorted, Analysis!Nodes
  <1>2. passed' = IF step = 0 THEN P ELSE passed
    BY ScreenedFirst DEF Analysis!Superstep
  <1>3. passed' \in BOOLEAN
    <2>1. P \in BOOLEAN /\ passed \in BOOLEAN
      BY Zenon DEF Analysis!ScreeningPasses, AnalysisInv
    <2>2. QED
      BY <1>2, <2>1, Zenon
  <1>4. CASE step = 0
    <2>1. active' = Analysis!AfterScreening(P)
      BY <1>1, <1>4, SuperstepOfTwo, Edges DEF Begun
    <2>2. passed' = P
      BY <1>2, <1>4
    <2>3. active' = IF passed' THEN {"market_regime"} ELSE {"skip_instrument"}
      BY <2>1, <2>2, Zenon DEF Analysis!AfterScreening
    <2>4. QED
      BY <1>1, <1>3, <1>4, <2>3 DEF Begun
  <1>5. CASE step = 1
    <2>1. passed' = passed
      BY <1>2, <1>5
    <2>2. active' = IF passed THEN Analysis!AfterRegime ELSE {}
      <3>1. CASE passed
        BY <1>1, <1>5, <3>1, SuperstepOfTwo, Edges DEF Begun
      <3>2. CASE ~passed
        BY <1>1, <1>5, <3>2, SuperstepOfTwo, Edges DEF Begun
      <3>3. QED
        BY <3>1, <3>2
    <2>3. Analysis!AfterRegime' = Analysis!AfterRegime
      BY <1>1 DEF Analysis!AfterRegime
    <2>4. QED
      BY <1>1, <1>3, <1>5, <2>1, <2>2, <2>3 DEF Begun
  <1>6. CASE step > 1
    BY <1>1, <1>2, <1>3, <1>6 DEF Begun
  <1>7. QED
    BY <1>1, <1>3, <1>4, <1>5, <1>6

\* A superstep keeps the types.
LEMMA AnalysisTypes ==
    ASSUME AnalysisInv, NEW fails, NEW pass \in BOOLEAN, Analysis!Superstep(fails, pass)
    PROVE  AnalysisSorted' /\ \A n \in Analysis!Nodes : runs'[n] <= step'
  <1>1. step' = step + 1 /\ step' \in Nat /\ step' <= 12 /\ wanted' = wanted
    BY SuperstepCounts, WavesStep DEF AnalysisInv, AnalysisSorted
  <1>2. round' \in 1..3
    <2>1. Begun' /\ (OneWave' \/ TwoWaves')
      BY BegunStep, WavesStep
    <2>2. QED
      BY <1>1, <2>1 DEF Begun, OneWave, TwoWaves, Scene
  <1>3. active \subseteq Analysis!Nodes
    <2>1. step \in Nat /\ step <= 12 /\ Begun
      BY DEF AnalysisInv, AnalysisSorted
    <2>2. CASE step <= 2
      BY <2>1, <2>2 DEF Begun, AnalysisInv, AnalysisSorted, Analysis!AfterRegime,
         Analysis!Nodes, Analysis!Analysts
    <2>3. CASE step > 2
      BY <2>1, <2>3 DEF AnalysisInv, OneWave, TwoWaves, Scene, Analysis!Nodes
    <2>4. QED
      BY <2>1, <2>2, <2>3
  <1>4. output' \in [Analysis!Nodes -> {"none", "ok", "failed"}]
    BY DEF Analysis!Superstep, Analysis!Left, AnalysisInv, AnalysisSorted
  <1>5. runs' \in [Analysis!Nodes -> Nat] /\ \A n \in Analysis!Nodes : runs'[n] <= step'
    <2>1. runs' = [n \in Analysis!Nodes |-> IF n \in active THEN runs[n] + 1 ELSE runs[n]]
      BY DEF Analysis!Superstep
    <2>2. \A n \in Analysis!Nodes : runs[n] \in Nat /\ runs[n] <= step /\ step \in Nat
      BY DEF AnalysisInv, AnalysisSorted
    <2>3. QED
      BY <1>1, <2>1, <2>2
  <1>6. informed' \subseteq Analysis!Nodes
    BY <1>3 DEF Analysis!Superstep, AnalysisInv, AnalysisSorted
  <1>7. QED
    BY <1>1, <1>2, <1>4, <1>5, <1>6 DEF AnalysisSorted, AnalysisInv

\* In one wave each node is in the superstep of its place only.
LEMMA WaveStep ==
    ASSUME AnalysisInv, NEW fails, NEW pass \in BOOLEAN, Analysis!Superstep(fails, pass)
    PROVE  WaveInv'
  <1> SUFFICES ASSUME wanted = Analysis!OptionalAnalysts,
                      NEW n \in Analysis!Nodes \ {"bull_research", "bear_research"}
               PROVE  runs'[n] <= 1 /\ (runs'[n] = 1 => Place(n) < step')
    BY SuperstepCounts DEF WaveInv, AnalysisInv
  <1>1. /\ step \in Nat /\ step <= 12 /\ step' = step + 1 /\ Begun /\ OneWave
        /\ runs'[n] = IF n \in active THEN runs[n] + 1 ELSE runs[n]
        /\ runs[n] \in Nat /\ runs[n] <= 1 /\ (runs[n] = 1 => Place(n) < step)
    BY SuperstepCounts DEF AnalysisInv, AnalysisSorted, WaveInv
  <1>2. Place(n) \in 0..11
    BY DEF Place
  <1>3. n \in active => Place(n) = step
    <2>1. CASE step <= 2
      BY <1>1, <2>1 DEF Begun, Place, Analysis!AfterRegime, Analysis!Analysts,
         Analysis!CoreAnalysts, Analysis!OptionalAnalysts
    <2>2. CASE step > 2
      BY <1>1, <2>2 DEF OneWave, Scene, Place, Analysis!Analysts, Analysis!CoreAnalysts,
         Analysis!OptionalAnalysts
    <2>3. QED
      BY <1>1, <2>1, <2>2
  <1>4. QED
    BY <1>1, <1>2, <1>3

\* Once the reports are in they stay in, and who is informed stays informed.
LEMMA ReportsStep ==
    ASSUME AnalysisInv, NEW fails, NEW pass \in BOOLEAN, Analysis!Superstep(fails, pass)
    PROVE  ReportsInv'
  <1>1. /\ step \in Nat /\ step <= 12 /\ step' = step + 1 /\ Begun /\ wanted' = wanted
        /\ \A n \in Analysis!Nodes :
              runs'[n] = IF n \in active THEN runs[n] + 1 ELSE runs[n]
        /\ runs \in [Analysis!Nodes -> Nat] /\ active # {}
        /\ Analysis!CoreAnalysts \union wanted \subseteq Analysis!Nodes
    BY SuperstepCounts DEF AnalysisInv, AnalysisSorted, Analysis!Nodes, Analysis!Analysts
  <1>2. step' >= 3 => Analysis!ReportsIn'
    <2> SUFFICES ASSUME step >= 2, NEW a \in Analysis!CoreAnalysts \union wanted
                 PROVE  runs'[a] > 0
      BY <1>1 DEF Analysis!ReportsIn
    <2>1. runs[a] \in Nat /\ runs'[a] = IF a \in active THEN runs[a] + 1 ELSE runs[a]
      BY <1>1
    <2>2. CASE step = 2
      BY <1>1, <2>1, <2>2 DEF Begun, Analysis!AfterRegime
    <2>3. CASE step > 2
      BY <1>1, <2>1, <2>3 DEF AnalysisInv, ReportsInv, Analysis!ReportsIn
    <2>4. QED
      BY <1>1, <2>2, <2>3
  <1>3. step >= 3 => informed' = informed \union active
    BY DEF Analysis!Superstep, AnalysisInv, ReportsInv
  <1>4. /\ step = 3 => "bull_research" \in active
        /\ step = 4 => "bear_research" \in active
        /\ step = 8 => "quant_check" \in active
        /\ step = 9 => "risk_manager" \in active
        /\ step = 10 => "strategic_review" \in active
        /\ step = 11 => "final_trader" \in active
    BY <1>1 DEF AnalysisInv, OneWave, TwoWaves, Scene
  <1>5. ReportsInv
    BY DEF AnalysisInv
  <1>6. QED
    BY <1>1, <1>2, <1>3, <1>4, <1>5 DEF ReportsInv

\* Until the screening is over nobody else runs.
LEMMA SkipStep ==
    ASSUME AnalysisInv, NEW fails, NEW pass \in BOOLEAN, Analysis!Superstep(fails, pass)
    PROVE  SkipInv'
  <1>1. /\ step \in Nat /\ step <= 12 /\ step' = step + 1 /\ Begun /\ SkipInv
        /\ \A n \in Analysis!Nodes :
              runs'[n] = IF n \in active THEN runs[n] + 1 ELSE runs[n]
        /\ output'["final_trader"] = Analysis!Left("final_trader", fails)
        /\ "skip_instrument" \in Analysis!Nodes /\ active # {}
    BY SuperstepCounts DEF AnalysisInv, AnalysisSorted, Analysis!Superstep,
       Analysis!Nodes
  <1>2. step > 0 => passed' = passed
    BY ScreenedFirst DEF Analysis!Superstep
  <1>3. CASE step = 0
    BY <1>1, <1>3 DEF Begun, SkipInv, Analysis!Left
  <1>4. CASE step = 1
    BY <1>1, <1>2, <1>4 DEF Begun, SkipInv, Analysis!Left
  <1>5. CASE step >= 2
    <2>1. passed /\ "skip_instrument" \notin active
      <3>1. CASE step = 2
        BY <1>1, <3>1 DEF Begun, Analysis!AfterRegime, AnalysisInv, AnalysisSorted,
           Analysis!CoreAnalysts, Analysis!OptionalAnalysts
      <3>2. CASE step > 2
        BY <1>1, <3>2 DEF Begun, AnalysisInv, OneWave, TwoWaves, Scene
      <3>3. QED
        BY <1>1, <1>5, <3>1, <3>2
    <2>2. passed' /\ runs'["skip_instrument"] = 0
      <3>1. step > 0
        BY <1>1, <1>5
      <3>2. runs["skip_instrument"] = 0
        BY <1>1, <2>1 DEF SkipInv
      <3>3. QED
        BY <1>1, <1>2, <2>1, <3>1, <3>2, Zenon
    <2>3. ~(step' <= 2)
      BY <1>1, <1>5
    <2>4. ~(step' <= 1)
      BY <1>1, <1>5
    <2>5. QED
      BY <2>2, <2>3, <2>4, Zenon DEF SkipInv
  <1>6. QED
    BY <1>1, <1>3, <1>4, <1>5

\* The invariant holds throughout.
LEMMA AnalysisInvariant ==
    Analysis!Init /\ [][Analysis!Next]_(Analysis!vars) => []AnalysisInv
  <1>1. AnalysisInv /\ [Analysis!Next]_(Analysis!vars) => AnalysisInv'
    <2> SUFFICES ASSUME AnalysisInv, [Analysis!Next]_(Analysis!vars) PROVE AnalysisInv'
      OBVIOUS
    <2>1. ASSUME NEW fails \in SUBSET Fallible, NEW pass \in BOOLEAN,
                 Analysis!Superstep(fails, pass)
          PROVE  AnalysisInv'
      BY <2>1, WavesStep, BegunStep, AnalysisTypes, WaveStep, ReportsStep, SkipStep
         DEF AnalysisInv
    <2>2. CASE UNCHANGED Analysis!vars
      BY <2>2 DEF Analysis!vars, AnalysisInv, AnalysisSorted, Begun, OneWave, TwoWaves,
         Scene, WaveInv, ReportsInv, SkipInv, Analysis!AfterRegime, Analysis!ReportsIn
    <2>3. QED
      BY <2>1, <2>2 DEF Analysis!Next
  <1>2. QED
    BY <1>1, AnalysisInit, PTL

\* The types, and what the run checks of the analysis, follow.
LEMMA AnalysisEndsWell ==
    ASSUME AnalysisAssumptions, AnalysisInv
    PROVE  Analysis!TypeOK /\ AnalysisIsSound
  <1> USE DEF AnalysisAssumptions
  <1>0. /\ AnalysisSorted /\ step \in Nat /\ step <= 12 /\ Begun
        /\ \A n \in Analysis!Nodes : runs[n] \in Nat /\ runs[n] <= step
        /\ {"bull_research", "bear_research", "quant_check"} \subseteq Analysis!Nodes
    BY DEF AnalysisInv, AnalysisSorted, Analysis!Nodes
  <1>1. Analysis!TypeOK
    <2>1. active \subseteq Analysis!Nodes
      <3>1. CASE step <= 2
        BY <1>0, <3>1 DEF Begun, AnalysisSorted, Analysis!AfterRegime, Analysis!Nodes,
           Analysis!Analysts
      <3>2. CASE step > 2
        BY <1>0, <3>2 DEF AnalysisInv, OneWave, TwoWaves, Scene, Analysis!Nodes
      <3>3. QED
        BY <1>0, <3>1, <3>2
    <2>2. step \in 0..RecursionLimit /\ round \in 1..RecursionLimit
      BY <1>0 DEF AnalysisSorted
    <2>3. runs \in [Analysis!Nodes -> 0..RecursionLimit]
      BY <1>0 DEF AnalysisSorted
    <2>4. QED
      BY <1>0, <2>1, <2>2, <2>3, Zenon DEF Analysis!TypeOK, AnalysisSorted, AnalysisInv
  <1>2. Analysis!EndsWithinLimit
    BY <1>0 DEF Analysis!EndsWithinLimit, AnalysisInv, OneWave, TwoWaves, Scene
  <1>3. Analysis!DecisionIsInformed
    <2>1. active = {} /\ passed => step = 12
      <3>1. CASE step <= 2
        BY <1>0, <3>1 DEF Begun, Analysis!AfterRegime, Analysis!CoreAnalysts
      <3>2. CASE step > 2
        BY <1>0, <3>2 DEF AnalysisInv, OneWave, TwoWaves, Scene
      <3>3. QED
        BY <1>0, <3>1, <3>2
    <2>2. QED
      BY <1>0, <2>1 DEF Analysis!DecisionIsInformed, Analysis!Tail, AnalysisInv, ReportsInv
  <1>4. Analysis!DebatedTwice
    BY <1>0 DEF Analysis!DebatedTwice, AnalysisInv, Begun, OneWave, TwoWaves, Scene
  <1>5. Analysis!SkippedIsFree
    <2>1. passed => runs["skip_instrument"] = 0
      BY DEF AnalysisInv, SkipInv
    <2>2. ~passed => step <= 2
      BY <1>0 DEF Begun
    <2>3. QED
      BY <2>1, <2>2 DEF Analysis!SkippedIsFree, AnalysisInv, SkipInv
  <1>6. Analysis!OneWaveIfAllAreWanted
    <2> SUFFICES ASSUME wanted = Analysis!OptionalAnalysts
                 PROVE  /\ \A n \in Analysis!Nodes \ {"bull_research", "bear_research"} :
                              runs[n] <= 1
                        /\ runs["bull_research"] <= 2 /\ runs["bear_research"] <= 2
      BY DEF Analysis!OneWaveIfAllAreWanted
    <2>1. runs["bull_research"] <= 2 /\ runs["bear_research"] <= 2
      BY <1>0 DEF AnalysisInv, Begun, OneWave, Scene
    <2>2. QED
      BY <2>1 DEF AnalysisInv, WaveInv
  <1>7. QED
    BY <1>1, <1>2, <1>3, <1>4, <1>5, <1>6 DEF AnalysisIsSound

(***************************************************************************)
(* The services together                                                   *)
(***************************************************************************)

\* A behaviour of the services together is one of the strategies, which take their
\* own steps and stutter through those of the others.
LEMMA StrategyAmongOthers == ServicesSpec => Spec
  <1>1. ServicesInit => Init
    BY DEF ServicesInit
  <1>2. [ServicesNext]_services => [Next]_vars
    BY DEF ServicesNext, services
  <1>3. QED
    BY <1>1, <1>2, PTL DEF ServicesSpec, Spec, services

\* So it is of the smart orders.
LEMMA SmartAmongOthers == ServicesSpec => Smart!Spec
  <1>1. ServicesInit => Smart!Init
    BY DEF ServicesInit
  <1>2. [ServicesNext]_services => [Smart!Next]_(Smart!vars)
    BY DEF ServicesNext, services, smart, Smart!vars
  <1>3. QED
    BY <1>1, <1>2, PTL DEF ServicesSpec, Smart!Spec, services

\* So it is of the jobs.
LEMMA JobAmongOthers == ServicesSpec => Job!Spec
  <1>1. ServicesInit => Job!Init
    BY DEF ServicesInit
  <1>2. [ServicesNext]_services => [Job!Next]_(Job!vars)
    BY DEF ServicesNext, services, jobs, Job!vars
  <1>3. QED
    BY <1>1, <1>2, PTL DEF ServicesSpec, Job!Spec, services

\* So it is of the referrals.
LEMMA ReferralAmongOthers == ServicesSpec => Referral!Spec
  <1>1. ServicesInit => Referral!Init
    BY DEF ServicesInit
  <1>2. [ServicesNext]_services => [Referral!Next]_(Referral!vars)
    BY DEF ServicesNext, services, referrals, Referral!vars
  <1>3. QED
    BY <1>1, <1>2, PTL DEF ServicesSpec, Referral!Spec, services

\* So it is of the commissions.
LEMMA CommissionAmongOthers == ServicesSpec => Commission!Spec
  <1>1. ServicesInit => Commission!Init
    BY DEF ServicesInit
  <1>2. [ServicesNext]_services => [Commission!Next]_(Commission!vars)
    BY DEF ServicesNext, services, affiliates, Commission!vars
  <1>3. QED
    BY <1>1, <1>2, PTL DEF ServicesSpec, Commission!Spec, services

\* So it is of the split orders.
LEMMA SplitterAmongOthers == ServicesSpec => Splitter!Spec
  <1>1. ServicesInit => Splitter!Init
    BY DEF ServicesInit
  <1>2. [ServicesNext]_services => [Splitter!Next]_(Splitter!vars)
    BY DEF ServicesNext, services, splitter, Splitter!vars
  <1>3. QED
    BY <1>1, <1>2, PTL DEF ServicesSpec, Splitter!Spec, services

\* So it is of the analysis, apart from its fairness.
LEMMA AnalysisAmongOthers ==
    ServicesSpec => Analysis!Init /\ [][Analysis!Next]_(Analysis!vars)
  <1>1. ServicesInit => Analysis!Init
    BY DEF ServicesInit
  <1>2. [ServicesNext]_services => [Analysis!Next]_(Analysis!vars)
    BY DEF ServicesNext, services, analysis, Analysis!vars
  <1>3. QED
    BY <1>1, <1>2, PTL DEF ServicesSpec, services

\* A repeated smart order is blocked, unless the one it repeats was cut or its key
\* thrown away, and what is blocked is a repetition.
THEOREM DuplicatesAreBlockedTogether ==
    SmartAssumptions /\ ServicesSpec => DuplicatesAreBlocked
  <1> SUFFICES ASSUME SmartAssumptions PROVE ServicesSpec => DuplicatesAreBlocked
    OBVIOUS
  <1> DEFINE Blocking ==
        \A r, p \in SmartRequests :
           /\ smartAt[r] = "waiting" /\ smartAt'[r] = "placing" /\ ask[r].check
           /\ Smart!InWindow(p, r)
           /\ ask[p].quantity = ask[r].quantity
           => Smart!Placed(p) # ask[p].quantity \/ p \in purged
      Reason ==
        \A r \in SmartRequests :
           smartAt[r] = "waiting" /\ smartAt'[r] = "blocked" =>
               \E p \in SmartRequests :
                  Smart!InWindow(p, r) /\ Smart!Placed(p) = ask[r].quantity
  <1>1. SmartInv /\ [Smart!Next]_(Smart!vars) =>
           [Blocking]_(Smart!vars) /\ [Reason]_(Smart!vars)
    <2> SUFFICES ASSUME SmartInv, Smart!Next PROVE Blocking /\ Reason
      OBVIOUS
    <2>1. Blocking
      BY BlockedIfDuplicate
    <2>2. Reason
      BY BlockedOnlyIfDuplicate
    <2>3. QED
      BY <2>1, <2>2
  <1> HIDE DEF Blocking, Reason
  <1>2. Smart!Spec => [][Blocking]_(Smart!vars) /\ [][Reason]_(Smart!vars)
    BY <1>1, SmartInvariant, PTL DEF Smart!Spec
  <1>3. [][Blocking]_(Smart!vars) /\ [][Reason]_(Smart!vars) => DuplicatesAreBlocked
    BY DEF DuplicatesAreBlocked, Smart!DuplicatesAreBlocked, Smart!BlockedForAReason,
       Blocking, Reason
  <1>4. QED
    BY <1>2, <1>3, SmartAmongOthers

\* A slot of a backtest is taken once and given back once, the limit of the tier is
\* kept, and what is shown as complete has its result.
THEOREM SlotsAreHonestTogether == JobAssumptions /\ ServicesSpec => []SlotsAreHonest
  <1> SUFFICES ASSUME JobAssumptions PROVE ServicesSpec => []SlotsAreHonest
    OBVIOUS
  <1>1. JobInv => SlotsAreHonest
    BY Honest
  <1>2. QED
    BY <1>1, JobInvariant, JobAmongOthers, PTL

\* Referrals, conversions, rewards and commissions are counted once each, and the
\* totals follow the rows, unless requests cross or fail.
THEOREM RewardsAddUpTogether ==
    IsFiniteSet(Tracks) /\ IsFiniteSet(Posts) /\ ServicesSpec => []RewardsAddUp
  <1> SUFFICES ASSUME IsFiniteSet(Tracks), IsFiniteSet(Posts)
               PROVE  ServicesSpec => []RewardsAddUp
    OBVIOUS
  <1>1. ReferralInv /\ CommissionInv => RewardsAddUp
    BY Rewarded, Commissioned DEF RewardsAddUp
  <1>2. QED
    BY <1>1, ReferralInvariant, CommissionInvariant, ReferralAmongOthers,
       CommissionAmongOthers, PTL

\* The legs of a split order are sent once each, its status says what became of them,
\* and once it is cancelled nothing more is sent.
THEOREM SplitsAreTrueTogether == ServicesSpec => SplitsAreTrue
  <1> DEFINE Quiet ==
        \A s \in Splits : status[s] = "CANCELLED" =>
           status'[s] = "CANCELLED" /\ sent'[s] = sent[s]
  <1>1. SplitInv => Splitter!LegsSentOnce /\ Splitter!VerdictIsTrue
                      /\ Splitter!AtMostOneUnknown
    BY SplitsEndTruly
  <1>2. SplitInv /\ [Splitter!Next]_(Splitter!vars) => [Quiet]_(Splitter!vars)
    BY CancelledSendsNothing
  <1> HIDE DEF Quiet
  <1>3. Splitter!Spec => [][Quiet]_(Splitter!vars)
    BY <1>2, SplitInvariant, PTL DEF Splitter!Spec
  <1>4. [][Quiet]_(Splitter!vars) => Splitter!CancelledIsQuiet
    BY DEF Splitter!CancelledIsQuiet, Quiet
  <1>5. QED
    BY <1>1, <1>3, <1>4, SplitInvariant, SplitterAmongOthers, PTL DEF SplitsAreTrue

\* An analysis ends within the limit of LangGraph, and its decision is debated twice
\* and made from all reports.
THEOREM AnalysisIsSoundTogether ==
    AnalysisAssumptions /\ ServicesSpec => []AnalysisIsSound
  <1> SUFFICES ASSUME AnalysisAssumptions PROVE ServicesSpec => []AnalysisIsSound
    OBVIOUS
  <1>1. AnalysisInv => AnalysisIsSound
    BY AnalysisEndsWell
  <1>2. QED
    BY <1>1, AnalysisInvariant, AnalysisAmongOthers, PTL

\* The flags of the circuit breaker stay flags.
LEMMA BreakerFlags == Breaker!Spec => [](cooled \in BOOLEAN /\ lost \in BOOLEAN)
  <1> DEFINE Inv == cooled \in BOOLEAN /\ lost \in BOOLEAN
  <1>1. Breaker!Init => Inv
    BY DEF Breaker!Init
  <1>2. Inv /\ [Breaker!Next]_(Breaker!vars) => Inv'
    <2> SUFFICES ASSUME Inv, [Breaker!Next]_(Breaker!vars) PROVE Inv'
      OBVIOUS
    <2>1. (cooled \in BOOLEAN)'
      BY Zenon DEF Breaker!Next, Breaker!vars, Breaker!AdmitClosed, Breaker!HalfOpen,
         Breaker!AdmitProbe, Breaker!RecordSuccess, Breaker!RecordFailure,
         Breaker!CancelCall, Breaker!ForceOpen, Breaker!ForceClose, Breaker!TimeoutPasses
    <2>2. (lost \in BOOLEAN)'
      BY Zenon DEF Breaker!Next, Breaker!vars, Breaker!AdmitClosed, Breaker!HalfOpen,
         Breaker!AdmitProbe, Breaker!RecordSuccess, Breaker!RecordFailure,
         Breaker!CancelCall, Breaker!ForceOpen, Breaker!ForceClose, Breaker!TimeoutPasses
    <2>3. QED
      BY <2>1, <2>2
  <1>3. QED
    BY <1>1, <1>2, PTL DEF Breaker!Spec

\* What the constants of the services have to be.
ServicesAssumptions ==
    /\ SmartAssumptions /\ JobAssumptions /\ AnalysisAssumptions
    /\ IsFiniteSet(Tracks) /\ IsFiniteSet(Posts)
    /\ Breaker!BreakerAssumptions /\ PriceAssumptions /\ DeliveryAssumptions
    /\ AnomalyAssumptions /\ SocketAssumptions

\* Every component keeps its type invariant, with the bounds it states: no counter,
\* attempt, slot or superstep goes beyond its limit.
THEOREM TypesAreKeptTogether == ServicesAssumptions /\ ServicesSpec => []TypesOK
  <1> SUFFICES ASSUME ServicesAssumptions PROVE ServicesSpec => []TypesOK
    OBVIOUS
  <1>1. ServicesSpec => []AnalysisInv
    BY AnalysisInvariant, AnalysisAmongOthers
  <1>2. ServicesSpec => []JobInv
    BY JobInvariant, JobAmongOthers DEF ServicesAssumptions
  <1>3. ServicesSpec => []SplitInv
    BY SplitInvariant, SplitterAmongOthers
  <1>4. ServicesSpec => []SmartInv
    BY SmartInvariant, SmartAmongOthers DEF ServicesAssumptions
  <1>5. ServicesSpec => []HookInv
    BY HookInvariant, WebhookAmongOthers
  <1>6. ServicesSpec => []BreakerInv
    BY BreakerInvariant, BreakerAmongOthers DEF ServicesAssumptions
  <1>7. ServicesSpec => []AnomalyInv
    BY AnomalyInvariant, AnomalyAmongOthers DEF ServicesAssumptions
  <1>8. ServicesSpec => []DeliveryInv
    BY DeliveryInvariant, DeliveryAmongOthers DEF ServicesAssumptions
  <1>9. ServicesSpec => []SocketsInv
    BY SocketsInvariant, SocketAmongOthers DEF ServicesAssumptions
  <1>10. ServicesSpec => []PricesInv
    BY PricesInvariant, PricesAmongOthers DEF ServicesAssumptions
  <1>11. ServicesSpec => []ReferralInv
    BY ReferralInvariant, ReferralAmongOthers DEF ServicesAssumptions
  <1>12. ServicesSpec => []CommissionInv
    BY CommissionInvariant, CommissionAmongOthers DEF ServicesAssumptions
  <1>13. ServicesSpec => []TypeOK
    BY TypeCorrect, StrategyAmongOthers
  <1>14. ServicesSpec => [](cooled \in BOOLEAN /\ lost \in BOOLEAN)
    BY BreakerFlags, BreakerAmongOthers
  <1>15. BreakerInv /\ cooled \in BOOLEAN /\ lost \in BOOLEAN => Breaker!TypeOK
    BY DEF BreakerInv, Sorted, Breaker!TypeOK
  <1>16. AnomalyInv => Anomaly!TypeOK
    <2>1. Flags => {mixed, failed, expired} \subseteq BOOLEAN
      BY Zenon DEF Flags
    <2>2. QED
      BY <2>1 DEF AnomalyInv, AnomalySorted, Flags, Anomaly!TypeOK
  <1>17. ASSUME AnalysisInv, SplitInv, ReferralInv, CommissionInv
         PROVE  /\ Analysis!TypeOK /\ Splitter!TypeOK /\ Referral!TypeOK
                /\ Commission!TypeOK
    BY <1>17, AnalysisEndsWell, SplitsEndTruly, Rewarded, Commissioned
       DEF ServicesAssumptions
  <1>18. /\ AnalysisInv /\ JobInv /\ SplitInv /\ SmartInv /\ HookInv /\ BreakerInv
         /\ AnomalyInv /\ DeliveryInv /\ SocketsInv /\ PricesInv /\ ReferralInv
         /\ CommissionInv /\ TypeOK /\ cooled \in BOOLEAN /\ lost \in BOOLEAN
         => TypesOK
    BY <1>15, <1>16, <1>17 DEF TypesOK, JobInv, SmartInv, HookInv, DeliveryInv,
       SocketsInv, PricesInv
  <1>19. QED
    BY <1>1, <1>2, <1>3, <1>4, <1>5, <1>6, <1>7, <1>8, <1>9, <1>10, <1>11, <1>12,
       <1>13, <1>14, <1>18, PTL
=============================================================================
