------------------------------ MODULE Webhooks ------------------------------
(***************************************************************************)
(* Webhooks of the integration service: receive_webhook checks, counts     *)
(* and logs a request and answers it; a background task of the same        *)
(* process turns it into a signal.  The entry made in the Redis queue is   *)
(* read by nobody: dequeue has no caller, and what mark_failed puts back   *)
(* is not processed again.                                                 *)
(*                                                                         *)
(* Every await of the database or of Redis is a step of its own, and each  *)
(* may fail.  A restart ends all handlers and background tasks.            *)
(*                                                                         *)
(* One user and one integration: they share one window of the limiter,     *)
(* here the number of its entries.                                         *)
(***************************************************************************)
EXTENDS Naturals

CONSTANTS Hooks,   \* requests
          Limit    \* rate_limit_per_minute

LogStatus == {"none", "RECEIVED", "QUEUED", "PROCESSING", "PROCESSED", "FAILED"}
Answers == {"none", "accepted", "unauthorized", "limited", "error"}
Places == {"idle", "counted", "checked", "logged", "queueing", "job", "parsing",
           "forwarding", "retrying", "ended"}

VARIABLES kind,     \* what the request carries: "good", "forged", "unreadable"
          at,       \* the await its handler, then its task, is at
          count,    \* current_count read from Redis
          allowed,  \* rate_allowed
          window,   \* entries in the sliding window
          crowded,  \* two requests were once between their count and their entry
          log,      \* webhook_log.status, as committed
          answer,   \* what the sender was told
          queue,    \* requests with an entry in the Redis queue
          signals   \* Signal rows per request

vars == <<kind, at, count, allowed, window, crowded, log, answer, queue, signals>>

TypeOK ==
    /\ kind \in [Hooks -> {"good", "forged", "unreadable"}]
    /\ at \in [Hooks -> Places]
    /\ count \in [Hooks -> Nat]
    /\ allowed \in [Hooks -> BOOLEAN]
    /\ window \in Nat
    /\ crowded \in BOOLEAN
    /\ log \in [Hooks -> LogStatus]
    /\ answer \in [Hooks -> Answers]
    /\ queue \subseteq Hooks
    /\ signals \in [Hooks -> Nat]

Init ==
    /\ kind \in [Hooks -> {"good", "forged", "unreadable"}]
    /\ at = [h \in Hooks |-> "idle"]
    /\ count = [h \in Hooks |-> 0]
    /\ allowed = [h \in Hooks |-> TRUE]
    /\ window = 0
    /\ crowded = FALSE
    /\ log = [h \in Hooks |-> "none"]
    /\ answer = [h \in Hooks |-> "none"]
    /\ queue = {}
    /\ signals = [h \in Hooks |-> 0]
-----------------------------------------------------------------------------
Go(h, place) == at' = [at EXCEPT ![h] = place]
Log(h, status) == log' = [log EXCEPT ![h] = status]
Tell(h, what) == answer' = [answer EXCEPT ![h] = what]

\* The rate limiter: count, then add.  Without Redis everything is allowed.
CountRequests(h) ==
    /\ at[h] = "idle"
    /\ Go(h, "counted")
    /\ count' = [count EXCEPT ![h] = window]
    /\ crowded' = (crowded \/ \E g \in Hooks \ {h} : at[g] = "counted")
    /\ UNCHANGED <<kind, allowed, window, log, answer, queue, signals>>

Bug_OneMore(h) == count[h] <= Limit
UnderLimit(h) == count[h] < Limit

AddRequest(h) ==
    /\ at[h] = "counted"
    /\ Go(h, "checked")
    /\ allowed' = [allowed EXCEPT ![h] = UnderLimit(h)]
    /\ window' = IF UnderLimit(h) THEN window + 1 ELSE window
    /\ UNCHANGED <<kind, count, crowded, log, answer, queue, signals>>

LimiterFails(h) ==
    /\ at[h] \in {"idle", "counted"}
    /\ Go(h, "checked")
    /\ UNCHANGED <<kind, count, allowed, window, crowded, log, answer, queue, signals>>

\* The oldest entry is older than a minute.
WindowSlides ==
    /\ window > 0
    /\ window' = window - 1
    /\ UNCHANGED <<kind, at, count, allowed, crowded, log, answer, queue, signals>>

\* The signature was checked before the limiter was asked; its result decides
\* only now that the request is counted and logged.
LogRequest(h) ==
    /\ at[h] = "checked"
    /\ Go(h, "logged")
    /\ Log(h, "RECEIVED")
    /\ UNCHANGED <<kind, count, allowed, window, crowded, answer, queue, signals>>

Verdict(h) == IF kind[h] = "forged" THEN "unauthorized"
              ELSE IF allowed[h] THEN "accepted" ELSE "limited"

JudgeRequest(h) ==
    /\ at[h] = "logged"
    /\ IF Verdict(h) = "accepted"
         THEN /\ Log(h, "QUEUED")
              /\ Go(h, "queueing")
              /\ UNCHANGED answer
         ELSE /\ Log(h, "FAILED")
              /\ Tell(h, Verdict(h))
              /\ Go(h, "ended")
    /\ UNCHANGED <<kind, count, allowed, window, crowded, queue, signals>>

Bug_AnswersFirst(h) == queue
EntryOf(h) == queue \union {h}

Enqueue(h) ==
    /\ at[h] = "queueing"
    /\ queue' = EntryOf(h)
    /\ Tell(h, "accepted")
    /\ Go(h, "job")
    /\ UNCHANGED <<kind, count, allowed, window, crowded, log, signals>>

Bug_StartAnyway == "job"
\* Where a request goes that could not be queued, or whose queueing got no answer.
AfterEnqueueFails == "ended"

EnqueueFails(h) ==
    /\ at[h] = "queueing"
    /\ queue' \in {queue, queue \union {h}}
    /\ Tell(h, "error")
    /\ Go(h, AfterEnqueueFails)
    /\ Log(h, "FAILED") \/ UNCHANGED log
    /\ UNCHANGED <<kind, count, allowed, window, crowded, signals>>

\* No configuration, no JSON, or the database fails: an error, and the log stays
\* as it was committed.
HandlerFails(h) ==
    /\ at[h] \in {"idle", "checked", "logged"}
    /\ Tell(h, "error")
    /\ Go(h, "ended")
    /\ UNCHANGED <<kind, count, allowed, window, crowded, log, queue, signals>>
-----------------------------------------------------------------------------
(* process_webhook_job                                                     *)

StartJob(h) ==
    /\ at[h] = "job"
    /\ Go(h, "parsing")
    /\ Log(h, "PROCESSING")
    /\ UNCHANGED <<kind, count, allowed, window, crowded, answer, queue, signals>>

\* The signal is committed as FORWARDED; then it is forwarded.
CreateSignal(h) ==
    /\ at[h] = "parsing"
    /\ kind[h] # "unreadable"
    /\ signals' = [signals EXCEPT ![h] = @ + 1]
    /\ Go(h, "forwarding")
    /\ UNCHANGED <<kind, count, allowed, window, crowded, log, answer, queue>>

\* mark_failed waits and puts the job back into the queue.
ParseFails(h) ==
    /\ at[h] = "parsing"
    /\ kind[h] = "unreadable"
    /\ Log(h, "FAILED")
    /\ Go(h, "retrying")
    /\ UNCHANGED <<kind, count, allowed, window, crowded, answer, queue, signals>>

FinishJob(h) ==
    /\ at[h] = "forwarding"
    /\ Log(h, "PROCESSED")
    /\ Go(h, "ended")
    /\ UNCHANGED <<kind, count, allowed, window, crowded, answer, queue, signals>>

JobFails(h) ==
    /\ at[h] \in {"job", "parsing", "forwarding"}
    /\ Go(h, "retrying")
    /\ UNCHANGED <<kind, count, allowed, window, crowded, log, answer, queue, signals>>

Bug_ProcessesAgain == "parsing"
AfterRequeue == "ended"

Requeue(h) ==
    /\ at[h] = "retrying"
    /\ queue' \in {queue, queue \union {h}}
    /\ Go(h, AfterRequeue)
    /\ UNCHANGED <<kind, count, allowed, window, crowded, log, answer, signals>>

Restart ==
    /\ \E h \in Hooks : at[h] \notin {"idle", "ended"}
    /\ at' = [h \in Hooks |-> IF at[h] = "idle" THEN "idle" ELSE "ended"]
    /\ \E made \in SUBSET {h \in Hooks : at[h] = "queueing"} : queue' = queue \union made
    /\ UNCHANGED <<kind, count, allowed, window, crowded, log, answer, signals>>

Next ==
    \/ \E h \in Hooks :
          \/ CountRequests(h) \/ AddRequest(h) \/ LimiterFails(h) \/ LogRequest(h)
          \/ JudgeRequest(h) \/ Enqueue(h) \/ EnqueueFails(h) \/ HandlerFails(h)
          \/ StartJob(h) \/ CreateSignal(h) \/ ParseFails(h) \/ FinishJob(h)
          \/ JobFails(h) \/ Requeue(h)
    \/ WindowSlides
    \/ Restart

Spec == Init /\ [][Next]_vars
-----------------------------------------------------------------------------
\* The sliding window holds more requests than the limit only if two of them
\* were counted before either was added (is_allowed).
LimitKept == window > Limit => crowded

\* A signal comes from an authentic request within the limit, whose sender was
\* told that it is accepted: no error path leaves a task behind.
SignalsAreAccepted ==
    \A h \in Hooks : signals[h] > 0 =>
        kind[h] = "good" /\ allowed[h] /\ answer[h] = "accepted"

\* Whatever fails and restarts, an accepted request can be found: its log says
\* how it ended, or it still has its entry in Redis.
AcceptedIsKept ==
    \A h \in Hooks : answer[h] = "accepted" =>
        h \in queue /\ log[h] \in {"QUEUED", "PROCESSING", "PROCESSED", "FAILED"}

\* One webhook makes at most one signal, also when its job fails after the
\* signal was committed and is put back; PROCESSED means that it made one, and
\* FAILED that it made none.
OneSignalEach ==
    \A h \in Hooks :
        /\ signals[h] <= 1
        /\ log[h] = "PROCESSED" => signals[h] = 1
        /\ log[h] = "FAILED" => signals[h] = 0
=============================================================================
