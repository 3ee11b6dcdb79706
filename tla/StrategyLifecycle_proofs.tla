----------------------- MODULE StrategyLifecycle_proofs -----------------------
(***************************************************************************)
(* For any number of requests and versions: the hash and the cached code   *)
(* of a strategy are of specs that were validated, stale only after an     *)
(* update overlapped a compilation, and a strategy is live because it was  *)
(* promoted or because an update said so.                                  *)
(***************************************************************************)
EXTENDS StrategyLifecycle, TLAPS

\* Code on its way to the cache was accepted.
StoreInv == \A r \in Requests : op[r] = "store" => seen[r].spec \notin Rejected

\* The last backtest is one of those that completed.
ProvenInv == backtest = "good" => proven

\* overlap tells of every update that is under way beside a compilation.
OverlapInv == \A p, q \in Requests : op[p] = "update" /\ op[q] = "compile" => overlap

\* What is compiled is the spec of the row.
CompileInv == \A r \in Requests : op[r] = "compile" => seen[r].spec = row.spec \/ overlap

\* An update that found nothing compiled leaves the hash of the row alone.
UpdateInv ==
    \A r \in Requests : op[r] = "update" /\ seen[r].hash = Uncompiled =>
        row.hash = Uncompiled \/ overlap

IInv == /\ TypeOK
        /\ CompiledIsValid
        /\ StoreInv /\ ProvenInv /\ OverlapInv /\ CompileInv /\ UpdateInv

\* A version is not the mark of an uncompiled row.
LEMMA UncompiledIsNoVersion == Uncompiled \notin Versions /\ Uncompiled \notin Rejected
  BY VersionsAreCounted, RefusesVersions DEF Uncompiled, Versions

\* The row as created is a row.
LEMMA CreatedType == \A s \in Askable : Created(s) \in Row
  BY VersionsAreCounted DEF Created, Row, Askable, Specified, Status, Versions, Uncompiled

\* What an operation loads is made of the row.
LEMMA LoadedType == ASSUME TypeOK, NEW o PROVE Loaded(o) \in Row
  <1>1. row \in Row
    BY DEF TypeOK
  <1>2. 1 \in Versions
    BY VersionsAreCounted DEF Versions
  <1>3. Loaded(o).status \in Status
    BY <1>1 DEF Loaded, Of, Row, Status
  <1>4. Loaded(o).spec \in Versions
    BY <1>1, <1>2 DEF Loaded, Of, Row
  <1>5. Loaded(o).hash \in Versions \union {Uncompiled}
    BY <1>1 DEF Loaded, Of, Row
  <1>6. Loaded(o).aged \in BOOLEAN
    <2>1. CASE o \in {"live"}
      BY <1>1, <2>1 DEF Loaded, Of, Row
    <2>2. CASE o \notin {"live"}
      BY <2>2 DEF Loaded, Of
    <2>3. QED
      BY <2>1, <2>2
  <1>7. QED
    BY <1>3, <1>4, <1>5, <1>6 DEF Loaded, Row

\* Init establishes the invariant.
LEMMA InitIInv == Init => IInv
  <1> SUFFICES ASSUME Init PROVE IInv
    OBVIOUS
  <1>1. TypeOK
    <2>1. row \in Row /\ Created("draft") \in Row
      BY CreatedType DEF Init, Askable, Specified
    <2>2. next \in 1..MaxVersions + 1
      BY VersionsAreCounted DEF Init
    <2>3. QED
      BY <2>1, <2>2 DEF Init, TypeOK, Askable, Specified
  <1>2. row.hash = Uncompiled /\ cache = {} /\ op = [r \in Requests |-> "idle"]
    BY DEF Init, Created
  <1>3. QED
    BY <1>1, <1>2, UncompiledIsNoVersion
       DEF Init, IInv, CompiledIsValid, OnlyValidatedCode, StaleOnlyAfterOverlap,
           StoreInv, ProvenInv, OverlapInv, CompileInv, UpdateInv

\* A step keeps the types.
LEMMA StepType == TypeOK /\ [Next]_vars => TypeOK'
  <1> SUFFICES ASSUME TypeOK, [Next]_vars PROVE TypeOK'
    OBVIOUS
  <1> USE DEF TypeOK
  <1>0. Created("draft") \in Row
    BY CreatedType DEF Askable, Specified
  <1>1. ASSUME NEW r \in Requests, Done(r)
        PROVE  /\ op' \in [Requests -> Ops \union {"idle"}]
               /\ seen' \in [Requests -> Row]
               /\ asked' \in [Requests -> Askable]
    BY <1>0, <1>1 DEF Done, Askable, Specified
  <1>2. ASSUME NEW r \in Requests, Refuse(r) PROVE TypeOK'
    BY <1>1, <1>2 DEF Refuse
  <1>3. ASSUME NEW r \in Requests, NEW o \in Ops, NEW s \in Askable, Load(r, o, s)
        PROVE  TypeOK'
    BY <1>3, LoadedType DEF Load
  <1>4. ASSUME NEW r \in Requests, Update(r) PROVE TypeOK'
    <2>1. row' \in Row
      BY <1>4, VersionsAreCounted
         DEF Update, Row, Written, HashAfterUpdate, Versions, Askable, Specified, Status
    <2>2. next' \in 1..MaxVersions + 1
      BY <1>4, VersionsAreCounted DEF Update
    <2>3. QED
      BY <1>1, <1>4, <2>1, <2>2 DEF Update
  <1>5. ASSUME NEW r \in Requests, FlowUpdate(r) PROVE TypeOK'
    <2>1. row' \in Row
      BY <1>5 DEF FlowUpdate, Row, Written, Askable, Specified, Status
    <2>2. QED
      BY <1>1, <1>5, <2>1 DEF FlowUpdate
  <1>6. ASSUME NEW r \in Requests, PythonUpdate(r) PROVE TypeOK'
    BY <1>1, <1>6 DEF PythonUpdate, Row
  <1>7. ASSUME NEW r \in Requests, Compile(r) PROVE TypeOK'
    <2>1. CASE Accepted(seen[r].spec)
      <3>1. row' \in Row
        BY <1>7, <2>1 DEF Compile, Row, Written
      <3>2. QED
        BY <1>7, <2>1, <3>1 DEF Compile, Ops
    <2>2. CASE ~Accepted(seen[r].spec)
      BY <1>2, <1>7, <2>2 DEF Compile
    <2>3. QED
      BY <2>1, <2>2
  <1>8. ASSUME NEW r \in Requests, Store(r) PROVE TypeOK'
    BY <1>1, <1>8 DEF Store, Row
  <1>9. ASSUME NEW r \in Requests, Paper(r) \/ Promote(r) \/ Delete(r) PROVE TypeOK'
    <2>1. CASE Refuse(r)
      BY <1>2, <2>1
    <2>2. CASE ~Refuse(r)
      <3>1. row' \in Row
        BY <1>9, <2>2 DEF Paper, Promote, Delete, Written, Row, Status
      <3>2. Done(r) /\ UNCHANGED <<next, cache, backtest, proven, overlap>>
        BY <1>9, <2>2 DEF Paper, Promote, Delete
      <3>3. QED
        BY <1>1, <3>1, <3>2
    <2>3. QED
      BY <2>1, <2>2
  <1>10. ASSUME NEW result \in {"good", "bad"}, BacktestCompletes(result) PROVE TypeOK'
    BY <1>10 DEF BacktestCompletes
  <1>11. CASE ThirtyDaysPass
    BY <1>11 DEF ThirtyDaysPass, Row
  <1>12. ASSUME NEW v \in Versions, CodeExpires(v) PROVE TypeOK'
    BY <1>12 DEF CodeExpires
  <1>13. CASE UNCHANGED vars
    BY <1>13 DEF vars
  <1>14. QED
    BY <1>2, <1>3, <1>4, <1>5, <1>6, <1>7, <1>8, <1>9, <1>10, <1>11, <1>12, <1>13
       DEF Next, CompileCached, FlowRefused

\* A step keeps the rest of the invariant.
LEMMA StepIInv == IInv /\ [Next]_vars => IInv'
  <1> SUFFICES ASSUME IInv, [Next]_vars PROVE IInv'
    OBVIOUS
  <1>0. TypeOK' /\ TypeOK
    BY StepType DEF IInv
  <1> DEFINE Rest == /\ OnlyValidatedCode /\ StaleOnlyAfterOverlap
                     /\ StoreInv /\ ProvenInv /\ OverlapInv /\ CompileInv /\ UpdateInv
  <1> SUFFICES Rest'
    BY <1>0 DEF IInv, CompiledIsValid
  <1> USE <1>0, UncompiledIsNoVersion
          DEF IInv, CompiledIsValid, OnlyValidatedCode, StaleOnlyAfterOverlap,
              StoreInv, ProvenInv, OverlapInv, CompileInv, UpdateInv
  \* A handler that ends, having changed nothing that the rest looks at.
  <1>1. ASSUME NEW r \in Requests, Done(r),
               UNCHANGED <<row.hash, row.spec, cache, backtest, proven, overlap>>
        PROVE  Rest'
    <2>1. \A p \in Requests : op'[p] # "idle" => op'[p] = op[p] /\ seen'[p] = seen[p]
      BY <1>1 DEF Done, TypeOK
    <2>2. QED
      BY <1>1, <2>1
  <1>2. ASSUME NEW r \in Requests, Refuse(r) PROVE Rest'
    BY <1>1, <1>2 DEF Refuse
  <1>3. ASSUME NEW r \in Requests, NEW o \in Ops \ {"store"}, NEW s \in Askable,
               Load(r, o, s)
        PROVE  Rest'
    <2>1. \A p \in Requests \ {r} : op'[p] = op[p] /\ seen'[p] = seen[p]
      BY <1>3 DEF Load, TypeOK
    <2>2. op'[r] = o /\ seen'[r] = Loaded(o)
      BY <1>3 DEF Load, TypeOK
    <2>3. /\ UNCHANGED <<row, cache, backtest, proven>>
          /\ overlap' = (overlap \/ \E p, q \in Requests :
                                        op'[p] = "update" /\ op'[q] = "compile")
      BY <1>3 DEF Load
    <2>4. o = "compile" => Loaded(o).spec = row.spec
      BY DEF Loaded, Of
    <2>5. o = "update" => Loaded(o).hash = row.hash
      BY DEF Loaded, Of
    <2>6. OnlyValidatedCode' /\ StaleOnlyAfterOverlap' /\ ProvenInv'
      BY <2>3
    <2>7. StoreInv'
      BY <2>1, <2>2, <2>3 DEF Ops
    <2>8. OverlapInv'
      BY <2>3
    <2>9. CompileInv' /\ UpdateInv'
      BY <2>1, <2>2, <2>3, <2>4, <2>5
    <2>10. QED
      BY <2>6, <2>7, <2>8, <2>9
  <1>4. ASSUME NEW r \in Requests, Update(r) PROVE Rest'
    <2>1. \A p \in Requests : op'[p] # "idle" => op'[p] = op[p] /\ seen'[p] = seen[p]
      BY <1>4 DEF Update, Done, TypeOK
    <2>2. op[r] = "update" /\ UNCHANGED <<cache, backtest, proven, overlap>>
      BY <1>4 DEF Update
    <2>3. row'.hash = Uncompiled \/ (row'.hash = row.hash /\ (row.hash = Uncompiled \/ overlap))
      BY <1>4, <2>2 DEF Update, HashAfterUpdate, Written
    <2>4. CompileInv'
      BY <2>1, <2>2
    <2>5. QED
      BY <2>1, <2>2, <2>3, <2>4
  <1>5. ASSUME NEW r \in Requests, FlowUpdate(r) \/ PythonUpdate(r) PROVE Rest'
    <2>1. UNCHANGED <<row.hash, row.spec>>
      BY <1>5 DEF FlowUpdate, PythonUpdate, TypeOK, Row
    <2>2. QED
      BY <1>1, <1>5, <2>1 DEF FlowUpdate, PythonUpdate
  <1>6. ASSUME NEW r \in Requests, Compile(r) PROVE Rest'
    <2>1. CASE Accepted(seen[r].spec)
      <3>1. \A p \in Requests \ {r} : op'[p] = op[p]
        BY <1>6, <2>1 DEF Compile, TypeOK
      <3>2. op[r] = "compile" /\ op'[r] = "store"
        BY <1>6, <2>1 DEF Compile, TypeOK
      <3>3. UNCHANGED <<seen, row.spec, cache, backtest, proven, overlap>>
        BY <1>6, <2>1 DEF Compile, TypeOK, Row
      <3>4. row'.hash \in {seen[r].spec, row.hash} /\ seen[r].spec \notin Rejected
        BY <1>6, <2>1 DEF Compile, Written, Accepted, TypeOK, Row
      <3>5. UpdateInv'
        BY <3>1, <3>2, <3>3
      <3>6. QED
        BY <3>1, <3>2, <3>3, <3>4, <3>5
    <2>2. CASE ~Accepted(seen[r].spec)
      BY <1>2, <1>6, <2>2 DEF Compile
    <2>3. QED
      BY <2>1, <2>2
  <1>7. ASSUME NEW r \in Requests, Store(r) PROVE Rest'
    <2>1. \A p \in Requests : op'[p] # "idle" => op'[p] = op[p] /\ seen'[p] = seen[p]
      BY <1>7 DEF Store, Done, TypeOK
    <2>2. cache' \intersect Rejected = {}
      BY <1>7 DEF Store
    <2>3. QED
      BY <1>7, <2>1, <2>2 DEF Store
  <1>8. ASSUME NEW r \in Requests, Paper(r) \/ Promote(r) \/ Delete(r) PROVE Rest'
    <2>1. CASE Refuse(r)
      BY <1>2, <2>1
    <2>2. CASE ~Refuse(r)
      <3>1. Done(r) /\ UNCHANGED <<row.hash, row.spec, cache, backtest, proven, overlap>>
        BY <1>8, <2>2 DEF Paper, Promote, Delete, TypeOK, Row
      <3>2. QED
        BY <1>1, <3>1
    <2>3. QED
      BY <2>1, <2>2
  <1>9. ASSUME NEW result \in {"good", "bad"}, BacktestCompletes(result) PROVE Rest'
    BY <1>9 DEF BacktestCompletes
  <1>10. CASE ThirtyDaysPass
    BY <1>10 DEF ThirtyDaysPass, TypeOK, Row
  <1>11. ASSUME NEW v \in Versions, CodeExpires(v) PROVE Rest'
    BY <1>11 DEF CodeExpires
  <1>12. CASE UNCHANGED vars
    BY <1>12 DEF vars
  <1>13. QED
    BY <1>2, <1>3, <1>4, <1>5, <1>6, <1>7, <1>8, <1>9, <1>10, <1>11, <1>12
       DEF Next, CompileCached, FlowRefused

\* The invariant holds throughout.
LEMMA Invariant == Spec => []IInv
  <1>1. QED
    BY InitIInv, StepIInv, PTL DEF Spec

\* All variables keep their types.
THEOREM TypeCorrect == Spec => []TypeOK
  <1>1. IInv => TypeOK
    BY DEF IInv
  <1>2. QED
    BY <1>1, Invariant, PTL

\* Neither hash nor cached code is of a refused spec, and a hash is that of the
\* spec in the row unless an update and a compilation overlapped.
THEOREM ValidCode == Spec => []CompiledIsValid
  <1>1. IInv => CompiledIsValid
    BY DEF IInv
  <1>2. QED
    BY <1>1, Invariant, PTL

\* A strategy becomes live by a promotion of a tested one found in paper trading,
\* or because an update or a flow asks for it.
THEOREM LiveForAReason == Spec => LiveIsEarnedOrAskedFor
  <1> DEFINE Earned ==
        row.status # "live" /\ row'.status = "live" =>
          \/ proven /\ \E r \in Requests : op[r] = "live" /\ seen[r].status = "paper"
          \/ \E r \in Requests : op[r] \in {"update", "flow"} /\ asked[r] = "live"
  <1>1. IInv /\ [Next]_vars => Earned
    <2> SUFFICES ASSUME IInv, Next, row.status # "live", row'.status = "live"
                 PROVE  Earned
      BY DEF vars
    <2>1. row \in Row /\ row' # row
      BY DEF IInv, TypeOK
    <2>2. PICK r \in Requests :
            Update(r) \/ FlowUpdate(r) \/ PythonUpdate(r) \/ Compile(r)
            \/ Paper(r) \/ Promote(r) \/ Delete(r)
      BY <2>1 DEF Next, Load, CompileCached, FlowRefused, Refuse, Store, BacktestCompletes,
                  ThirtyDaysPass, CodeExpires, Row
    <2>3. CASE Update(r) \/ FlowUpdate(r)
      <3>1. op[r] \in {"update", "flow"}
        BY <2>3 DEF Update, FlowUpdate
      <3>2. row'.status = Written(seen[r].status, asked[r], row.status)
        <4>1. CASE Update(r)
          BY <4>1 DEF Update
        <4>2. CASE FlowUpdate(r)
          BY <2>1, <4>2 DEF FlowUpdate, Row
        <4>3. QED
          BY <2>3, <4>1, <4>2
      <3>3. asked[r] = "live"
        BY <3>2 DEF Written
      <3>4. QED
        BY <3>1, <3>3
    <2>4. CASE Promote(r)
      BY <2>1, <2>4 DEF Promote, Promotable, Refuse, IInv, ProvenInv
    <2>5. CASE PythonUpdate(r) \/ Compile(r) \/ Paper(r) \/ Delete(r)
      BY <2>1, <2>5 DEF PythonUpdate, Compile, Refuse, Paper, Delete, Written, Row
    <2>6. QED
      BY <2>2, <2>3, <2>4, <2>5
  <1>2. QED
    BY <1>1, Invariant, PTL DEF Spec, LiveIsEarnedOrAskedFor
=============================================================================
