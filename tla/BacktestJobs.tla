----------------------------- MODULE BacktestJobs ---------------------------
(***************************************************************************)
(* Backtests of one user: run_backtest submits, a Celery worker runs,      *)
(* get_backtest_result reads, and a counter in Redis limits how many may   *)
(* be under way.                                                           *)
(*                                                                         *)
(* The handlers are coroutines of one or more processes, so each call of   *)
(* Redis is a step.  A Redis that fails counts as "go on".  A task is      *)
(* acknowledged when it is over: if the worker dies before, even behind    *)
(* the commit of the result, the broker delivers it again.  A worker that  *)
(* exceeds the time limit is killed and its task is not repeated.          *)
(***************************************************************************)
EXTENDS Integers, FiniteSets

CONSTANTS Jobs,    \* submissions
          Limit,   \* TIER_LIMITS of the user's tier
          MaxRuns, \* bound on the deliveries of a task
          MaxDebt  \* bound on how far the counter may be below zero

Status == {"none", "pending", "running", "complete", "failed"}

VARIABLES submit,     \* per submission: "idle", "checked", "created", "counted", "over"
          job,        \* backtest_results.status
          task,       \* the Celery task: "none", "queued", "running", "stored", "done"
          runs,       \* deliveries
          held,       \* result_data is there
          slots,      \* backtest:concurrent:<user>
          fetching,   \* per job: a reader is at "decr", at "reset", or "no"
          counted,    \* jobs whose increment reached Redis
          freed,      \* jobs whose result was read once
          excused     \* why the limit may not hold, see below

vars == <<submit, job, task, runs, held, slots, fetching, counted, freed, excused>>

\* race: a submission was checked while another was between its check and its
\* increment; again: a result was read twice, or made twice; redis: a
\* call of Redis failed, or the key expired.
Excuses == {"race", "again", "redis"}

TypeOK ==
    /\ submit \in [Jobs -> {"idle", "checked", "created", "counted", "over"}]
    /\ job \in [Jobs -> Status]
    /\ task \in [Jobs -> {"none", "queued", "running", "stored", "done"}]
    /\ runs \in [Jobs -> 0..MaxRuns]
    /\ held \subseteq Jobs
    /\ slots \in Int
    /\ fetching \in [Jobs -> {"no", "decr", "reset"}]
    /\ counted \subseteq Jobs
    /\ freed \subseteq Jobs
    /\ excused \subseteq Excuses

Init ==
    /\ submit = [j \in Jobs |-> "idle"]
    /\ job = [j \in Jobs |-> "none"]
    /\ task = [j \in Jobs |-> "none"]
    /\ runs = [j \in Jobs |-> 0]
    /\ held = {}
    /\ slots = 0
    /\ fetching = [j \in Jobs |-> "no"]
    /\ counted = {}
    /\ freed = {}
    /\ excused = {}
-----------------------------------------------------------------------------
(* run_backtest                                                            *)

Excuse(why, holds) == excused' = IF holds THEN excused \union {why} ELSE excused

Bug_OneMore == slots <= Limit
CanStart == slots < Limit

\* can_start_backtest reads the counter; a refusal is answered with 429.
Check(j) ==
    /\ submit[j] = "idle"
    /\ submit' = [submit EXCEPT ![j] = IF CanStart THEN "checked" ELSE "over"]
    /\ Excuse("race", \E i \in Jobs : submit[i] \in {"checked", "created"})
    /\ UNCHANGED <<job, task, runs, held, slots, fetching, counted, freed>>

CheckFails(j) ==
    /\ submit[j] = "idle"
    /\ submit' = [submit EXCEPT ![j] = "checked"]
    /\ Excuse("redis", TRUE)
    /\ UNCHANGED <<job, task, runs, held, slots, fetching, counted, freed>>

CreatePending(j) ==
    /\ submit[j] = "checked"
    /\ submit' = [submit EXCEPT ![j] = "created"]
    /\ job' = [job EXCEPT ![j] = "pending"]
    /\ UNCHANGED <<task, runs, held, slots, fetching, counted, freed, excused>>

\* No row, a 500, and the counter as it was.
CreateFails(j) ==
    /\ submit[j] = "checked"
    /\ submit' = [submit EXCEPT ![j] = "over"]
    /\ UNCHANGED <<job, task, runs, held, slots, fetching, counted, freed, excused>>

Increment(j) ==
    /\ submit[j] = "created"
    /\ submit' = [submit EXCEPT ![j] = "counted"]
    /\ \/ slots' = slots + 1 /\ counted' = counted \union {j} /\ UNCHANGED excused
       \/ Excuse("redis", TRUE) /\ UNCHANGED <<slots, counted>>
    /\ UNCHANGED <<job, task, runs, held, fetching, freed>>

Send(j) ==
    /\ submit[j] = "counted"
    /\ submit' = [submit EXCEPT ![j] = "over"]
    /\ task' = [task EXCEPT ![j] = "queued"]
    /\ UNCHANGED <<job, runs, held, slots, fetching, counted, freed, excused>>

\* A 500; the row stays pending and the slot taken.
SendFails(j) ==
    /\ submit[j] = "counted"
    /\ submit' = [submit EXCEPT ![j] = "over"]
    /\ UNCHANGED <<job, task, runs, held, slots, fetching, counted, freed, excused>>
-----------------------------------------------------------------------------
(* run_backtest_task                                                       *)

Deliver(j) ==
    /\ task[j] = "queued"
    /\ runs[j] < MaxRuns
    /\ task' = [task EXCEPT ![j] = "running"]
    /\ runs' = [runs EXCEPT ![j] = @ + 1]
    /\ job' = [job EXCEPT ![j] = "running"]
    /\ UNCHANGED <<submit, held, slots, fetching, counted, freed, excused>>

\* store_backtest_result writes the result and the status in one commit.
StoreResult(j) ==
    /\ task[j] = "running"
    /\ task' = [task EXCEPT ![j] = "stored"]
    /\ job' = [job EXCEPT ![j] = "complete"]
    /\ held' = held \union {j}
    /\ UNCHANGED <<submit, runs, slots, fetching, counted, freed, excused>>

FinishTask(j) ==
    /\ task[j] = "stored"
    /\ task' = [task EXCEPT ![j] = "done"]
    /\ job' = [job EXCEPT ![j] = "complete"]
    /\ UNCHANGED <<submit, runs, held, slots, fetching, counted, freed, excused>>

\* An exception, also of the update behind the stored result: failed, if that
\* can be written.
TaskFails(j) ==
    /\ task[j] \in {"running", "stored"}
    /\ task' = [task EXCEPT ![j] = "done"]
    /\ job' \in {job, [job EXCEPT ![j] = "failed"]}
    /\ UNCHANGED <<submit, runs, held, slots, fetching, counted, freed, excused>>

WorkerDies(j) ==
    /\ task[j] \in {"running", "stored"}
    /\ task' = [task EXCEPT ![j] = "queued"]
    /\ Excuse("again", task[j] = "stored")
    /\ UNCHANGED <<submit, job, runs, held, slots, fetching, counted, freed>>

TimeLimit(j) ==
    /\ task[j] \in {"running", "stored"}
    /\ task' = [task EXCEPT ![j] = "done"]
    /\ UNCHANGED <<submit, job, runs, held, slots, fetching, counted, freed, excused>>
-----------------------------------------------------------------------------
(* get_backtest_result                                                     *)

Readable(j) == job[j] = "complete"

Read(j) ==
    /\ fetching[j] = "no"
    /\ Readable(j)
    /\ slots > -MaxDebt
    /\ fetching' = [fetching EXCEPT ![j] = "decr"]
    /\ UNCHANGED <<submit, job, task, runs, held, slots, counted, freed, excused>>

\* Whoever reads a result frees a slot, each time.  A counter found below zero
\* is set to zero by a second call.
Decrement(j) ==
    /\ fetching[j] = "decr"
    /\ \/ /\ slots' = slots - 1
          /\ freed' = freed \union {j}
          /\ \/ slots' >= 0 /\ fetching' = [fetching EXCEPT ![j] = "no"]
             \/ slots' < 0 /\ fetching' = [fetching EXCEPT ![j] = "reset"]
          /\ Excuse("again", j \in freed)
       \/ /\ fetching' = [fetching EXCEPT ![j] = "no"]
          /\ Excuse("redis", TRUE)
          /\ UNCHANGED <<slots, freed>>
    /\ UNCHANGED <<submit, job, task, runs, held, counted>>

Reset(j) ==
    /\ fetching[j] = "reset"
    /\ fetching' = [fetching EXCEPT ![j] = "no"]
    /\ slots' \in {slots, 0}
    /\ UNCHANGED <<submit, job, task, runs, held, counted, freed, excused>>

\* Two hours after the last increment.
SlotsExpire ==
    /\ slots # 0
    /\ slots' = 0
    /\ Excuse("redis", TRUE)
    /\ UNCHANGED <<submit, job, task, runs, held, fetching, counted, freed>>

Next ==
    \/ \E j \in Jobs :
          \/ Check(j) \/ CheckFails(j) \/ CreatePending(j) \/ CreateFails(j)
          \/ Increment(j) \/ Send(j) \/ SendFails(j)
          \/ Deliver(j) \/ StoreResult(j) \/ FinishTask(j) \/ TaskFails(j)
          \/ WorkerDies(j) \/ TimeLimit(j)
          \/ Read(j) \/ Decrement(j) \/ Reset(j)
    \/ SlotsExpire

Spec == Init /\ [][Next]_vars
-----------------------------------------------------------------------------
UnderWay == {j \in Jobs : task[j] \in {"queued", "running"}}

\* No more backtests of a user are under way than the tier allows, unless two
\* submissions raced, a result was read twice, a task ran twice or Redis let
\* the counter go: a failed or unread backtest never makes room by mistake.
LimitKept == excused = {} => Cardinality(UnderWay) <= Limit

\* A slot is held by a backtest that was counted and never read: reading,
\* resetting and expiring never leave more slots taken than there are such.
SlotsHaveOwners == slots <= Cardinality(counted \ freed)

\* A backtest that is shown as complete has its result, whatever was repeated.
CompleteHasResult == \A j \in Jobs : job[j] = "complete" => j \in held
=============================================================================
