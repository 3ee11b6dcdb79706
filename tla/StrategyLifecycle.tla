-------------------------- MODULE StrategyLifecycle -------------------------
(***************************************************************************)
(* The life of one strategy of the algo builder: edited, compiled, traded  *)
(* on paper, promoted to live, deleted, by requests that overlap.          *)
(*                                                                         *)
(* Every request loads the row, awaits Redis or the database, and commits. *)
(* The ORM writes the columns whose value differs from the one it loaded,  *)
(* no others, and takes no lock: what another request committed meanwhile  *)
(* is neither seen nor, in the other columns, overwritten.                 *)
(*                                                                         *)
(* A version stands for the content of spec: each update writes a new one, *)
(* as its timestamp is part of it.  compute_spec_hash(spec) is the version *)
(* itself.                                                                 *)
(***************************************************************************)
EXTENDS Naturals

CONSTANTS Requests,     \* request handlers
          MaxVersions,  \* bound on the updates
          Rejected      \* versions the compiler or the sandbox refuses

ASSUME VersionsAreCounted == MaxVersions \in Nat \ {0}

Versions == 1..MaxVersions

ASSUME RefusesVersions == Rejected \subseteq Versions

Uncompiled == 0
Status == {"draft", "testing", "paper", "live", "deleted", "archived"}
\* What a spec may ask for, and what a flow may.
Specified == {"draft", "testing", "paper", "live"}
Askable == Specified \union {"archived"}

Row == [status : Status, spec : Versions, hash : Versions \union {Uncompiled},
        aged : BOOLEAN]

VARIABLES row,       \* the strategy in the database; aged: updated_at is 30 days ago
          next,      \* version the next update writes
          cache,     \* versions whose code is in Redis
          backtest,  \* the last completed backtest: "none", "good", "bad"
          proven,    \* a good backtest was once the last one
          op,        \* what each handler is doing
          seen,      \* what it goes on to use of the row it loaded
          asked,     \* the status an update asks for
          overlap    \* an update and a compilation were once under way together

vars == <<row, next, cache, backtest, proven, op, seen, asked, overlap>>

Ops == {"update", "flow", "python", "compile", "store", "paper", "live", "delete"}

TypeOK ==
    /\ row \in Row
    /\ next \in 1..MaxVersions + 1
    /\ cache \subseteq Versions
    /\ backtest \in {"none", "good", "bad"}
    /\ proven \in BOOLEAN
    /\ op \in [Requests -> Ops \union {"idle"}]
    /\ seen \in [Requests -> Row]
    /\ asked \in [Requests -> Askable]
    /\ overlap \in BOOLEAN

\* create_strategy: the status is the spec's.
Created(status) == [status |-> status, spec |-> 1, hash |-> Uncompiled, aged |-> FALSE]

Init ==
    /\ row \in {Created(s) : s \in Specified}
    /\ next = 2
    /\ cache = {}
    /\ backtest = "none"
    /\ proven = FALSE
    /\ op = [r \in Requests |-> "idle"]
    /\ seen = [r \in Requests |-> Created("draft")]
    /\ asked = [r \in Requests |-> "draft"]
    /\ overlap = FALSE
-----------------------------------------------------------------------------
Of(operations, o, value, unused) == IF o \in operations THEN value ELSE unused

\* What an operation uses of the row; the rest is left out of the state.
Loaded(o) ==
    [status |-> Of({"update", "flow", "paper", "live", "delete"}, o, row.status, "draft"),
     spec   |-> Of({"compile"}, o, row.spec, 1),
     hash   |-> Of({"update", "compile", "paper"}, o, row.hash, Uncompiled),
     aged   |-> Of({"live"}, o, row.aged, FALSE)]

\* A deleted strategy is found like any other; the ORM cannot load one that is archived.
Load(r, o, status) ==
    /\ op[r] = "idle"
    /\ row.status # "archived"
    /\ op' = [op EXCEPT ![r] = o]
    /\ seen' = [seen EXCEPT ![r] = Loaded(o)]
    /\ status = "draft" \/ o = "flow" \/ (o = "update" /\ status \in Specified)
    /\ asked' = [asked EXCEPT ![r] = status]
    /\ overlap' = (overlap \/ \E p, q \in Requests : op'[p] = "update" /\ op'[q] = "compile")
    /\ UNCHANGED <<row, next, cache, backtest, proven>>

Done(r) == /\ op' = [op EXCEPT ![r] = "idle"]
           /\ seen' = [seen EXCEPT ![r] = Created("draft")]
           /\ asked' = [asked EXCEPT ![r] = "draft"]

\* An error answer.
Refuse(r) ==
    /\ Done(r)
    /\ UNCHANGED <<row, next, cache, backtest, proven, overlap>>

\* The ORM's UPDATE: a column keeps what the database has unless the request
\* changed it from what it had loaded.
Written(loaded, new, current) == IF new # loaded THEN new ELSE current

Bug_KeepsHash(r) == row.hash
HashAfterUpdate(r) == Written(seen[r].hash, Uncompiled, row.hash)

Update(r) ==
    /\ op[r] = "update"
    /\ next <= MaxVersions
    /\ row' = [status |-> Written(seen[r].status, asked[r], row.status),
               spec |-> next,
               hash |-> HashAfterUpdate(r),
               aged |-> FALSE]
    /\ next' = next + 1
    /\ Done(r)
    /\ UNCHANGED <<cache, backtest, proven, overlap>>

\* The flow and the Python editor change the spec they loaded in place, which
\* the ORM takes for no change: of the row, status and updated_at are written.
FlowUpdate(r) ==
    /\ op[r] = "flow"
    /\ row' = [row EXCEPT !.status = Written(seen[r].status, asked[r], @), !.aged = FALSE]
    /\ Done(r)
    /\ UNCHANGED <<next, cache, backtest, proven, overlap>>

\* "archived" is no StrategyStatus: a column of that type refuses it, and the commit
\* raises; the VARCHAR column of the migrations takes it (FlowUpdate).
FlowRefused(r) ==
    /\ op[r] = "flow"
    /\ asked[r] = "archived"
    /\ Refuse(r)

PythonUpdate(r) ==
    /\ op[r] = "python"
    /\ row' = [row EXCEPT !.aged = FALSE]
    /\ Done(r)
    /\ UNCHANGED <<next, cache, backtest, proven, overlap>>

Bug_AcceptsAny(v) == TRUE
Accepted(v) == v \notin Rejected

\* Compiled already, and in the cache: nothing to write.
CompileCached(r) ==
    /\ op[r] = "compile"
    /\ seen[r].spec \in cache
    /\ seen[r].hash = seen[r].spec
    /\ Refuse(r)

Compile(r) ==
    /\ op[r] = "compile"
    /\ ~(seen[r].spec \in cache /\ seen[r].hash = seen[r].spec)
    /\ IF Accepted(seen[r].spec)
         THEN /\ row' = [row EXCEPT !.hash = Written(seen[r].hash, seen[r].spec, @),
                                    !.aged = FALSE]
              /\ op' = [op EXCEPT ![r] = "store"]
              /\ UNCHANGED <<next, cache, backtest, proven, seen, asked, overlap>>
         ELSE Refuse(r)

\* The code goes to Redis after the commit, or is lost.
Store(r) ==
    /\ op[r] = "store"
    /\ \/ cache' = cache \union {seen[r].spec}
       \/ UNCHANGED cache
    /\ Done(r)
    /\ UNCHANGED <<row, next, backtest, proven, overlap>>

CanPaper(r) == /\ seen[r].hash # Uncompiled
               /\ seen[r].hash \in cache
               /\ seen[r].status # "live"

Paper(r) ==
    /\ op[r] = "paper"
    /\ IF CanPaper(r) /\ seen[r].status \in {"draft", "testing"}
         THEN /\ row' = [row EXCEPT !.status = "paper", !.aged = FALSE]
              /\ Done(r)
              /\ UNCHANGED <<next, cache, backtest, proven, overlap>>
         ELSE Refuse(r)

Bug_AnyBacktest(r) == seen[r].status = "paper" /\ seen[r].aged /\ backtest # "none"
\* 30 days since updated_at, a profitable and consistent last backtest.
Promotable(r) == seen[r].status = "paper" /\ seen[r].aged /\ backtest = "good"

Promote(r) ==
    /\ op[r] = "live"
    /\ IF Promotable(r)
         THEN /\ row' = [row EXCEPT !.status = "live", !.aged = FALSE]
              /\ Done(r)
              /\ UNCHANGED <<next, cache, backtest, proven, overlap>>
         ELSE Refuse(r)

Delete(r) ==
    /\ op[r] = "delete"
    /\ IF seen[r].status # "live"
         THEN /\ row' = [row EXCEPT !.status = Written(seen[r].status, "deleted", @),
                                    !.aged = FALSE]
              /\ Done(r)
              /\ UNCHANGED <<next, cache, backtest, proven, overlap>>
         ELSE Refuse(r)

BacktestCompletes(result) ==
    /\ backtest' = result
    /\ proven' = (proven \/ result = "good")
    /\ UNCHANGED <<row, next, cache, op, seen, asked, overlap>>

ThirtyDaysPass ==
    /\ ~row.aged
    /\ row' = [row EXCEPT !.aged = TRUE]
    /\ UNCHANGED <<next, cache, backtest, proven, op, seen, asked, overlap>>

CodeExpires(v) ==
    /\ v \in cache
    /\ cache' = cache \ {v}
    /\ UNCHANGED <<row, next, backtest, proven, op, seen, asked, overlap>>

Next ==
    \/ \E r \in Requests :
          \/ \E o \in Ops \ {"store"}, s \in Askable : Load(r, o, s)
          \/ Update(r) \/ FlowUpdate(r) \/ FlowRefused(r) \/ PythonUpdate(r)
          \/ CompileCached(r) \/ Compile(r) \/ Store(r)
          \/ Paper(r) \/ Promote(r) \/ Delete(r)
    \/ \E result \in {"good", "bad"} : BacktestCompletes(result)
    \/ ThirtyDaysPass
    \/ \E v \in Versions : CodeExpires(v)

Spec == Init /\ [][Next]_vars
-----------------------------------------------------------------------------
\* Whatever overlaps, no hash and no cached code is of a spec that the sandbox
\* refused: paper trading never runs code that was not validated.
OnlyValidatedCode ==
    /\ cache \intersect Rejected = {}
    /\ row.hash \notin Rejected

\* The compiled code is that of the spec the user sees, unless an update was
\* once committed while a compilation was under way: the row then keeps, for
\* as long as nobody edits it, the hash of a spec that is gone.
StaleOnlyAfterOverlap ==
    row.hash \notin {Uncompiled, row.spec} => overlap

CompiledIsValid == OnlyValidatedCode /\ StaleOnlyAfterOverlap

\* A strategy becomes live by a promotion that found it in paper trading and
\* well tested, or because an update just said so.
LiveIsEarnedOrAskedFor ==
    [][row.status # "live" /\ row'.status = "live" =>
          \/ proven /\ \E r \in Requests : op[r] = "live" /\ seen[r].status = "paper"
          \/ \E r \in Requests : op[r] \in {"update", "flow"} /\ asked[r] = "live"]_vars
=============================================================================
