---------------------------- MODULE AnomalyAlerts ---------------------------
(***************************************************************************)
(* From an anomaly to the rules it alerts: deduplication in Redis, then    *)
(* the matching of alert rules with quiet hours and a limit per hour.      *)
(*                                                                         *)
(* The events of one instrument and type share one deduplication key, and  *)
(* the rules of one user share one counter of the hour; the instrument,    *)
(* asset class, type and severity filters let all events here pass.  Each  *)
(* call of Redis is a step, other events are processed in between, and     *)
(* whatever fails counts as "let the event pass".                          *)
(***************************************************************************)
EXTENDS Naturals

CONSTANTS Events,
          Critical,    \* severities are 1..Critical
          NumRules,    \* the enabled rules of the user, in the order of the query
          MaxPerHour,  \* rule.max_alerts_per_hour
          MaxHours     \* bound on the hours that pass

Severities == 1..Critical
Rules == 1..NumRules
Places == {"idle", "storing", "expiring", "matching", "counting", "done", "suppressed", "lost"}

VARIABLES severity,
          at,         \* the await each event's task is at
          rule,       \* the rule its matcher is at
          matched,    \* matching_rules
          key,        \* severity under the deduplication key, 0 if there is no key
          ttl,        \* the key will expire
          counter,    \* alert_rate of this user and hour
          hour,
          alerts,     \* alerts of this hour that count towards the limit
          mixed,      \* two events once looked at a key or a counter together
          failed,     \* Redis once failed, or a task ended before its event was stored
          expired     \* the deduplication key once expired

vars == <<severity, at, rule, matched, key, ttl, counter, hour, alerts, mixed, failed, expired>>

TypeOK ==
    /\ severity \in [Events -> Severities]
    /\ at \in [Events -> Places]
    /\ rule \in [Events -> 1..NumRules + 1]
    /\ matched \in [Events -> SUBSET Rules]
    /\ key \in 0..Critical
    /\ ttl \in BOOLEAN
    /\ counter \in Nat
    /\ hour \in 0..MaxHours
    /\ alerts \in Nat
    /\ {mixed, failed, expired} \subseteq BOOLEAN

Init ==
    /\ severity \in [Events -> Severities]
    /\ at = [e \in Events |-> "idle"]
    /\ rule = [e \in Events |-> 1]
    /\ matched = [e \in Events |-> {}]
    /\ key = 0
    /\ ttl = FALSE
    /\ counter = 0
    /\ hour = 0
    /\ alerts = 0
    /\ mixed = FALSE
    /\ failed = FALSE
    /\ expired = FALSE

dedup == <<key, ttl, expired>>
rate == <<counter, hour, alerts>>
Go(e, place) == at' = [at EXCEPT ![e] = place]
Together(e, place) == mixed' = (mixed \/ \E f \in Events \ {e} : at[f] = place)
-----------------------------------------------------------------------------
Bug_EqualPasses(e) == severity[e] >= key
\* No key, or a lower severity under it.
IsNews(e) == severity[e] > key

LookUp(e) ==
    /\ at[e] = "idle"
    /\ Go(e, IF IsNews(e) THEN "storing" ELSE "suppressed")
    /\ Together(e, "storing")
    /\ UNCHANGED <<severity, rule, matched, dedup, rate, failed>>

LookUpFails(e) ==
    /\ at[e] = "idle"
    /\ Go(e, "matching")
    /\ failed' = TRUE
    /\ UNCHANGED <<severity, rule, matched, dedup, rate, mixed>>

Bug_StoresHighest(e) == Critical
Stored(e) == severity[e]

\* hset leaves the expiry of a key that is there as it was.
Store(e) ==
    /\ at[e] = "storing"
    /\ key' = Stored(e)
    /\ ttl' = (key # 0 /\ ttl)
    /\ Go(e, "expiring")
    /\ UNCHANGED <<severity, rule, matched, rate, mixed, failed, expired>>

SetExpiry(e) ==
    /\ at[e] = "expiring"
    /\ ttl' = (key # 0)
    /\ Go(e, "matching")
    /\ UNCHANGED <<severity, rule, matched, key, rate, mixed, failed, expired>>

\* The event passes; without the expire the key stays for ever.
StoreFails(e) ==
    /\ at[e] \in {"storing", "expiring"}
    /\ Go(e, "matching")
    /\ failed' = TRUE
    /\ UNCHANGED <<severity, rule, matched, dedup, rate, mixed>>

KeyExpires ==
    /\ key # 0
    /\ ttl
    /\ key' = 0
    /\ ttl' = FALSE
    /\ expired' = TRUE
    /\ UNCHANGED <<severity, at, rule, matched, rate, mixed, failed>>
-----------------------------------------------------------------------------
NextRule(e) == rule' = [rule EXCEPT ![e] = @ + 1]
AtRule(e) == at[e] = "matching" /\ rule[e] <= NumRules

\* A critical event alerts all rules, without the quiet hours and the counter.
MatchCritical(e) ==
    /\ AtRule(e)
    /\ severity[e] = Critical
    /\ matched' = [matched EXCEPT ![e] = @ \union {rule[e]}]
    /\ NextRule(e)
    /\ UNCHANGED <<severity, at, dedup, rate, mixed, failed>>

SkipQuiet(e) ==
    /\ AtRule(e)
    /\ severity[e] # Critical
    /\ NextRule(e)
    /\ UNCHANGED <<severity, at, matched, dedup, rate, mixed, failed>>

Bug_OneMore == counter <= MaxPerHour
UnderLimit == counter < MaxPerHour

\* The counter is read; the rule matches, and the increment is sent.
CheckRate(e) ==
    /\ AtRule(e)
    /\ severity[e] # Critical
    /\ IF UnderLimit
         THEN /\ matched' = [matched EXCEPT ![e] = @ \union {rule[e]}]
              /\ Go(e, "counting")
              /\ UNCHANGED rule
         ELSE /\ NextRule(e)
              /\ UNCHANGED <<at, matched>>
    /\ Together(e, "counting")
    /\ UNCHANGED <<severity, dedup, rate, failed>>

CheckRateFails(e) ==
    /\ AtRule(e)
    /\ severity[e] # Critical
    /\ matched' = [matched EXCEPT ![e] = @ \union {rule[e]}]
    /\ Go(e, "counting")
    /\ failed' = TRUE
    /\ UNCHANGED <<severity, rule, dedup, rate, mixed>>

CountAlert(e) ==
    /\ at[e] = "counting"
    /\ \/ counter' = counter + 1 /\ UNCHANGED failed
       \/ failed' = TRUE /\ UNCHANGED counter
    /\ alerts' = alerts + 1
    /\ Go(e, "matching")
    /\ NextRule(e)
    /\ UNCHANGED <<severity, matched, dedup, hour, mixed>>

Deliver(e) ==
    /\ at[e] = "matching"
    /\ rule[e] > NumRules
    /\ Go(e, "done")
    /\ UNCHANGED <<severity, rule, matched, dedup, rate, mixed, failed>>

\* The counter of the next hour is another key.
HourPasses ==
    /\ hour < MaxHours
    /\ hour' = hour + 1
    /\ counter' = 0
    /\ alerts' = 0
    /\ UNCHANGED <<severity, at, rule, matched, dedup, mixed, failed>>

\* The rules cannot be read, or the process restarts: no alert.
LoseEvent(e) ==
    /\ at[e] \notin {"idle", "done", "suppressed", "lost"}
    /\ Go(e, "lost")
    /\ failed' = (failed \/ at[e] = "storing")
    /\ UNCHANGED <<severity, rule, matched, dedup, rate, mixed>>

Next ==
    \/ \E e \in Events :
          \/ LookUp(e) \/ LookUpFails(e) \/ Store(e) \/ SetExpiry(e) \/ StoreFails(e)
          \/ MatchCritical(e) \/ SkipQuiet(e) \/ CheckRate(e) \/ CheckRateFails(e)
          \/ CountAlert(e) \/ Deliver(e) \/ LoseEvent(e)
    \/ KeyExpires
    \/ HourPasses

Spec == Init /\ [][Next]_vars
-----------------------------------------------------------------------------
LetThrough(e) == at[e] \notin {"idle", "suppressed"}

\* An anomaly is suppressed only when one of at least its severity was let
\* through before: an escalation is never silenced, whatever raced or failed.
SuppressedForAReason ==
    \A e \in Events : at[e] = "suppressed" =>
        \E f \in Events : LetThrough(f) /\ severity[f] >= severity[e]

\* One alert for each severity of an anomaly: two events of the same severity
\* are let through only if they looked at the key together, Redis failed or the
\* key expired (should_suppress, _store_event).
EachSeverityOnce ==
    \A e, f \in Events :
        e # f /\ LetThrough(e) /\ LetThrough(f) /\ severity[e] = severity[f] =>
            mixed \/ failed \/ expired

\* The user gets more alerts in an hour than his limit only if two events read
\* the counter together or Redis failed.
HourlyLimitKept == ~mixed /\ ~failed => alerts <= MaxPerHour

\* A critical anomaly that was let through alerts every rule.
CriticalReachesAll ==
    \A e \in Events : at[e] = "done" /\ severity[e] = Critical => matched[e] = Rules
=============================================================================
